---- MODULE Spec2Model ----
\* A model of the MCP protocol engine of mcp-go-template: the message
\* envelope (pkg/mcp/types.go), the dispatcher BaseHandler
\* (pkg/mcp/handler.go) and the WebSocket connection loop
\* (internal/server/server.go) that feeds one shared handler from every
\* connection.
EXTENDS Integers, Sequences, FiniteSets, TLC

\* ---------------------------------------------------------------------
\* Protocol constants (types.go)
\* ---------------------------------------------------------------------
MCPVersion == "2024-11-05"

ParseError == -32700
InvalidRequest == -32600
MethodNotFound == -32601
InvalidParams == -32602
InternalError == -32603
InvalidMCPVersion == -32000
UnknownCapability == -32001
ResourceNotFound == -32002
ToolNotFound == -32003
PromptNotFound == -32004

\* ---------------------------------------------------------------------
\* Values. A Go nil interface / nil pointer is a record of kind "nil";
\* a Go nil error and an absent text are the empty sequence. Texts built
\* by fmt.Sprintf / fmt.Errorf are the sequence of their fragments, so
\* that "the text contains s" is decidable.
\* ---------------------------------------------------------------------
Nil == [kind |-> "nil"]

NoText == << >>

Contains(text, s) == \E i \in DOMAIN text : text[i] = s

\* ---------------------------------------------------------------------
\* Go dynamic values (interface{}) as a type switch sees them. A value
\* carries its dynamic type t and one payload: b for bool, n for int and
\* float64, s for string, e for []interface{} and []string, m for
\* map[string]interface{}. A float64 is kept in halves (n = 3 is 1.5), so
\* that fractional values exist; an int is kept in units. A string that
\* gets measured is spelled one character per element.
\* ---------------------------------------------------------------------
EmptyMap == [k \in {} |-> 0]

GoValue(t, b, n, s, e, m) == [t |-> t, b |-> b, n |-> n, s |-> s, e |-> e, m |-> m]

NilValue == GoValue("nil", FALSE, 0, << >>, << >>, EmptyMap)

Bool(b) == GoValue("bool", b, 0, << >>, << >>, EmptyMap)

\* the float64 halves/2
Float64(halves) == GoValue("float64", FALSE, halves, << >>, << >>, EmptyMap)

\* the int units
GoInt(units) == GoValue("int", FALSE, units, << >>, << >>, EmptyMap)

\* the string of the characters s
Str(s) == GoValue("string", FALSE, 0, s, << >>, EmptyMap)

\* a string used as a keyword only, never measured
Word(w) == Str(<< w >>)

\* []interface{}{e...}
Slice(e) == GoValue("[]interface {}", FALSE, 0, << >>, e, EmptyMap)

\* []string{e...}, its elements kept as string values
StringSlice(e) == GoValue("[]string", FALSE, 0, << >>, e, EmptyMap)

\* map[string]interface{}{...}; a nil map is NilMap
Map(m) == GoValue("map[string]interface {}", FALSE, 0, << >>, << >>, m)

NilMap == GoValue("nil map", FALSE, 0, << >>, << >>, EmptyMap)

\* "_, exists := m[k]" on a map value: a nil map reads as empty
Exists(v, k) == k \in DOMAIN v.m

\* bytes of the UTF-8 encoding of one character
Utf8Len(ch) == IF ch = "é" THEN 2 ELSE 1

RECURSIVE ByteLen(_)
\* len(s) of a Go string: its bytes
ByteLen(s) == IF s = << >> THEN 0 ELSE Utf8Len(Head(s)) + ByteLen(Tail(s))

\* float64(k) of an int or of a length
ToFloat64(units) == 2 * units

\* whether Go can hash the value as a map key (a slice or a map cannot)
Hashable(v) == v.t \notin {"[]interface {}", "[]string", "map[string]interface {}", "nil map"}

\* ToolSchema{Type, Properties, Required}
ToolSchema(type, properties, required) ==
    [Type |-> type, Properties |-> properties, Required |-> required]

\* what a run-time panic leaves instead of a returned error
Panic(text) == << "panic: ", text >>

Panics(err) == err # NoText /\ err[1] = "panic: "

\* ---------------------------------------------------------------------
\* The message envelope (types.go). Message.ID is an interface{}: a Go
\* value, nil when the message carries no id.
\* ---------------------------------------------------------------------
NoID == NilValue

\* type Message struct
Message(id, method, params, result, error) ==
    [jsonrpc |-> "2.0", id |-> id, method |-> method,
     params |-> params, result |-> result, error |-> error]

\* type ErrorInfo struct
ErrorInfo(code, message, data) ==
    [kind |-> "error", code |-> code, message |-> message, data |-> data]

\* faulty variant: the error response loses the request's identifier
NewErrorResponse_NoID(id, code, message, data) ==
    Message(NoID, "", Nil, Nil, ErrorInfo(code, message, data))

NewErrorResponse(id, code, message, data) ==
    Message(id, "", Nil, Nil, ErrorInfo(code, message, data))

NewSuccessResponse(id, result) ==
    Message(id, "", Nil, result, Nil)

NewRequest(id, method, params) ==
    Message(id, method, params, Nil, Nil)

NewNotification(method, params) ==
    Message(NoID, method, params, Nil, Nil)

IsRequest(m) == m.method # "" /\ m.id # NoID

IsNotification(m) == m.method # "" /\ m.id = NoID

\* faulty variant: every message without a method counts as a response
IsResponse_AnyID(m) == m.method = ""

IsResponse(m) == m.method = "" /\ m.id # NoID

HasError(m) == m.error # Nil

\* ---------------------------------------------------------------------
\* The JSON encoding of the envelope (encoding/json by the struct tags of
\* Message and ErrorInfo). A JSON text is given by the value it denotes:
\* an object is a function of its member names; a number is kept in
\* halves like a float64.
\* ---------------------------------------------------------------------
JSONString(v) == [j |-> "string", v |-> v]

JSONNumber(halves) == [j |-> "number", v |-> halves]

\* the encoding of a value that is not looked into
JSONOf(v) == [j |-> "value", v |-> v]

\* one member of an object, left out when the tag's omitempty applies
Member(name, omitted, value) == IF omitted THEN EmptyMap ELSE name :> value

\* omitempty on the interface field ID: only the nil interface is left out
OmitEmpty(v) == v = NilValue

\* the encoding of an id: a Go string as a JSON string, an int or a
\* float64 as a JSON number
EncodeID(id) ==
    CASE id.t = "string" -> JSONString(id.s)
      [] id.t = "int" -> JSONNumber(ToFloat64(id.n))
      [] id.t = "float64" -> JSONNumber(id.n)

\* json.Marshal(error) for *ErrorInfo
EncodeError(e) ==
    ("code" :> JSONNumber(ToFloat64(e.code)))
    @@ ("message" :> JSONString(e.message))
    @@ Member("data", e.data = NoText, JSONOf(e.data))

\* json.Marshal(message) for *Message
Encode(m) ==
    ("jsonrpc" :> JSONString(m.jsonrpc))
    @@ Member("id", OmitEmpty(m.id), EncodeID(m.id))
    @@ Member("method", m.method = "", JSONString(m.method))
    @@ Member("params", m.params = Nil, JSONOf(m.params))
    @@ Member("result", m.result = Nil, JSONOf(m.result))
    @@ Member("error", m.error = Nil, JSONOf(EncodeError(m.error)))

\* what json.Unmarshal stores in an interface{} for an encoded value: the
\* generic form of the value, not the Go value that was encoded
Generic(json) == [kind |-> "decoded", json |-> json.v]

\* json.Unmarshal of a member into the interface field ID: a JSON string
\* gives a string, a JSON number gives a float64
DecodeID(object) ==
    IF "id" \notin DOMAIN object THEN NilValue
    ELSE IF object["id"].j = "string" THEN Str(object["id"].v)
    ELSE Float64(object["id"].v)

\* json.Unmarshal into *ErrorInfo: the number goes into the int Code
DecodeError(object) ==
    ErrorInfo(object["code"].v \div 2,
              object["message"].v,
              IF "data" \in DOMAIN object THEN Generic(object["data"]) ELSE NoText)

\* json.Unmarshal(data, &message)
Decode(object) ==
    Message(DecodeID(object),
            IF "method" \in DOMAIN object THEN object["method"].v ELSE "",
            IF "params" \in DOMAIN object THEN Generic(object["params"]) ELSE Nil,
            IF "result" \in DOMAIN object THEN Generic(object["result"]) ELSE Nil,
            IF "error" \in DOMAIN object THEN DecodeError(object["error"].v) ELSE Nil)


\* ---------------------------------------------------------------------
\* Params payloads (Message.Params is interface{}): absent (nil), a JSON
\* value that is no object, or an object. An object is given by the
\* fields the typed shapes read; a field the object does not carry is
\* the zero value "" after decoding (encoding/json leaves it unset) and
\* fields a shape does not declare are ignored. `arguments` is "absent",
\* "map" (a JSON object) or "scalar" (a JSON value that cannot decode
\* into map[string]interface{}).
\* ---------------------------------------------------------------------
ParamsObject(protocolVersion, name, uri, arguments) ==
    [kind |-> "object", protocolVersion |-> protocolVersion, name |-> name,
     uri |-> uri, arguments |-> arguments]

ParamsScalar == [kind |-> "scalar"]

\* json.Unmarshal(data, v) for v one of the four params shapes
jsonUnmarshal(params, shape) ==
    IF params.kind # "object"
    THEN << "json: cannot unmarshal ", params.kind, " into Go value of type ", shape >>
    ELSE IF shape \in {"CallToolParams", "GetPromptParams"} /\ params.arguments = "scalar"
    THEN << "json: cannot unmarshal ", params.arguments, " into Go struct field ",
            shape, ".arguments" >>
    ELSE NoText

\* Message.UnmarshalParams: the error (NoText when nil)
UnmarshalParams(m, shape) ==
    IF m.params = Nil
    THEN << "no params to unmarshal" >>
    ELSE jsonUnmarshal(m.params, shape)

\* ---------------------------------------------------------------------
\* Collaborators. A handler is identified by a name of its own; its
\* Definition() gives the key it registers under.
\* ---------------------------------------------------------------------
ToolHandlers == {"calculatorTool", "powerCalculatorTool", "unnamedTool"}

ResourceHandlers == {"notesResource"}

PromptHandlers == {"greetingPrompt"}

\* ToolHandler.Definition().Name / ResourceHandler.Definition().URI /
\* PromptHandler.Definition().Name
DefinitionKey(handler) ==
    CASE handler = "calculatorTool" -> "calculator"
      [] handler = "powerCalculatorTool" -> "calculator"
      [] handler = "unnamedTool" -> ""
      [] handler = "notesResource" -> "file:///notes"
      [] handler = "greetingPrompt" -> "greeting"

\* What a collaborator's Execute / Read / Generate can come back with:
\* a result, a result flagged isError (a business failure, tools only),
\* or a fault (a non-nil error).
ToolOutcomes == {"result", "business", "fault"}

Outcomes == {"result", "fault"}

FaultText == "collaborator fault"

\* the *CallToolResult a tool returns by itself
ToolResult(handler, outcome) ==
    [kind |-> "CallToolResult",
     content |-> << [type |-> "text",
                    text |-> << handler, IF outcome = "business"
                                         THEN ": division by zero" ELSE ": done" >>] >>,
     isError |-> (outcome = "business")]

EmptyTable == [n \in {} |-> ""]

Put(table, key, handler) ==
    [n \in (DOMAIN table) \cup {key} |-> IF n = key THEN handler ELSE table[n]]

\* NewBaseHandler
NewBaseHandler(serverInfo, capabilities) ==
    [serverInfo |-> serverInfo, capabilities |-> capabilities,
     tools |-> EmptyTable, resources |-> EmptyTable, prompts |-> EmptyTable,
     initialized |-> FALSE]

\* BaseHandler.RegisterTool: the handler after the call and the error
RegisterTool(h, handler) ==
    IF DefinitionKey(handler) = ""
    THEN [h |-> h, err |-> << "tool name cannot be empty" >>]
    ELSE [h |-> [h EXCEPT !.tools = Put(h.tools, DefinitionKey(handler), handler)],
          err |-> NoText]

RegisterResource(h, handler) ==
    IF DefinitionKey(handler) = ""
    THEN [h |-> h, err |-> << "resource URI cannot be empty" >>]
    ELSE [h |-> [h EXCEPT !.resources = Put(h.resources, DefinitionKey(handler), handler)],
          err |-> NoText]

RegisterPrompt(h, handler) ==
    IF DefinitionKey(handler) = ""
    THEN [h |-> h, err |-> << "prompt name cannot be empty" >>]
    ELSE [h |-> [h EXCEPT !.prompts = Put(h.prompts, DefinitionKey(handler), handler)],
          err |-> NoText]

\* ---------------------------------------------------------------------
\* The dispatcher (handler.go). Each operation is given as the value the
\* Go method returns: `result`/`msg` and `err` (NoText when nil), the
\* handler after the call where the method writes a field, and `invoked`,
\* the collaborator calls it made, in order.
\* ---------------------------------------------------------------------

\* the typed shapes UnmarshalParams fills in
InitializeParams(p) == [protocolVersion |-> p.protocolVersion]

CallToolParams(p) == [name |-> p.name, arguments |-> p.arguments]

ReadResourceParams(p) == [uri |-> p.uri]

GetPromptParams(p) == [name |-> p.name, arguments |-> p.arguments]

\* faulty variant: Initialize without the protocol version test
Initialize_AnyVersion(h, params) ==
    [result |-> [kind |-> "InitializeResult",
                 protocolVersion |-> MCPVersion,
                 capabilities |-> h.capabilities,
                 serverInfo |-> h.serverInfo],
     err |-> NoText]

\* BaseHandler.Initialize
Initialize(h, params) ==
    IF params.protocolVersion # MCPVersion
    THEN [result |-> Nil,
          err |-> << "unsupported protocol version: ", params.protocolVersion >>]
    ELSE [result |-> [kind |-> "InitializeResult",
                      protocolVersion |-> MCPVersion,
                      capabilities |-> h.capabilities,
                      serverInfo |-> h.serverInfo],
          err |-> NoText]

\* BaseHandler.ListTools / ListResources / ListPrompts (map iteration
\* order is unspecified: the list is given as the set of its elements)
ListTools(h) == {DefinitionKey(h.tools[n]) : n \in DOMAIN h.tools}

ListResources(h) == {DefinitionKey(h.resources[n]) : n \in DOMAIN h.resources}

ListPrompts(h) == {DefinitionKey(h.prompts[n]) : n \in DOMAIN h.prompts}

\* a collaborator call as the log keeps it: the handler called and what
\* its Execute / Read / Generate came back with
Invocation(handler, outcome) == [handler |-> handler, returned |-> outcome]

\* faulty variant: CallTool without the initialized test
CallTool_Ungated(h, params, outcome) ==
    IF params.name \notin DOMAIN h.tools
    THEN [result |-> Nil, err |-> << "tool '", params.name, "' not found" >>,
          invoked |-> << >>]
    ELSE IF outcome = "fault"
    THEN [result |-> [kind |-> "CallToolResult",
                      content |-> << [type |-> "text",
                                     text |-> << "Tool execution failed: ", FaultText >>] >>,
                      isError |-> TRUE],
          err |-> NoText,
          invoked |-> << Invocation(h.tools[params.name], outcome) >>]
    ELSE [result |-> ToolResult(h.tools[params.name], outcome),
          err |-> NoText,
          invoked |-> << Invocation(h.tools[params.name], outcome) >>]

\* faulty variant: CallTool hands the fault of Execute on as its own error
CallTool_FaultIsError(h, params, outcome) ==
    IF ~h.initialized
    THEN [result |-> Nil, err |-> << "handler not initialized" >>, invoked |-> << >>]
    ELSE IF params.name \notin DOMAIN h.tools
    THEN [result |-> Nil, err |-> << "tool '", params.name, "' not found" >>,
          invoked |-> << >>]
    ELSE IF outcome = "fault"
    THEN [result |-> Nil, err |-> << FaultText >>,
          invoked |-> << Invocation(h.tools[params.name], outcome) >>]
    ELSE [result |-> ToolResult(h.tools[params.name], outcome),
          err |-> NoText,
          invoked |-> << Invocation(h.tools[params.name], outcome) >>]

\* BaseHandler.CallTool
CallTool(h, params, outcome) ==
    IF ~h.initialized
    THEN [result |-> Nil, err |-> << "handler not initialized" >>, invoked |-> << >>]
    ELSE IF params.name \notin DOMAIN h.tools
    THEN [result |-> Nil, err |-> << "tool '", params.name, "' not found" >>,
          invoked |-> << >>]
    ELSE IF outcome = "fault"
    THEN [result |-> [kind |-> "CallToolResult",
                      content |-> << [type |-> "text",
                                     text |-> << "Tool execution failed: ", FaultText >>] >>,
                      isError |-> TRUE],
          err |-> NoText,
          invoked |-> << Invocation(h.tools[params.name], outcome) >>]
    ELSE [result |-> ToolResult(h.tools[params.name], outcome),
          err |-> NoText,
          invoked |-> << Invocation(h.tools[params.name], outcome) >>]

\* BaseHandler.ReadResource
ReadResource(h, params, outcome) ==
    IF ~h.initialized
    THEN [result |-> Nil, err |-> << "handler not initialized" >>, invoked |-> << >>]
    ELSE IF params.uri \notin DOMAIN h.resources
    THEN [result |-> Nil, err |-> << "resource '", params.uri, "' not found" >>,
          invoked |-> << >>]
    ELSE IF outcome = "fault"
    THEN [result |-> Nil, err |-> << FaultText >>,
          invoked |-> << Invocation(h.resources[params.uri], "fault") >>]
    ELSE [result |-> [kind |-> "ReadResourceResult", uri |-> params.uri],
          err |-> NoText,
          invoked |-> << Invocation(h.resources[params.uri], "result") >>]

\* BaseHandler.GetPrompt
GetPrompt(h, params, outcome) ==
    IF ~h.initialized
    THEN [result |-> Nil, err |-> << "handler not initialized" >>, invoked |-> << >>]
    ELSE IF params.name \notin DOMAIN h.prompts
    THEN [result |-> Nil, err |-> << "prompt '", params.name, "' not found" >>,
          invoked |-> << >>]
    ELSE IF outcome = "fault"
    THEN [result |-> Nil, err |-> << FaultText >>,
          invoked |-> << Invocation(h.prompts[params.name], "fault") >>]
    ELSE [result |-> [kind |-> "GetPromptResult", name |-> params.name],
          err |-> NoText,
          invoked |-> << Invocation(h.prompts[params.name], "result") >>]

\* what HandleMessage and its two branches return
Returned(msg, h, invoked) == [msg |-> msg, err |-> NoText, h |-> h, invoked |-> invoked]

\* faulty variant: a failure of the operation is returned as the error of
\* HandleMessage
Call_Faults(h, m, decodeErr, badParams, r, failed) ==
    IF decodeErr # NoText
    THEN Returned(<< NewErrorResponse(m.id, InvalidParams, << badParams >>, decodeErr) >>,
                  h, << >>)
    ELSE IF r.err # NoText
    THEN [msg |-> << >>, err |-> r.err, h |-> h, invoked |-> r.invoked]
    ELSE Returned(<< NewSuccessResponse(m.id, r.result) >>, h, r.invoked)

\* one case of handleRequest's switch that decodes params and calls op
Call(h, m, decodeErr, badParams, r, failed) ==
    IF decodeErr # NoText
    THEN Returned(<< NewErrorResponse(m.id, InvalidParams, << badParams >>, decodeErr) >>,
                  h, << >>)
    ELSE IF r.err # NoText
    THEN Returned(<< NewErrorResponse(m.id, InternalError, << failed >>, r.err) >>,
                  h, r.invoked)
    ELSE Returned(<< NewSuccessResponse(m.id, r.result) >>, h, r.invoked)

\* faulty variant: the default case answers without naming the method
UnknownMethod_NoName(m) ==
    NewErrorResponse(m.id, MethodNotFound, << "method not found" >>, NoText)

\* handleRequest, the default case of the switch
UnknownMethod(m) ==
    NewErrorResponse(m.id, MethodNotFound, << "method '", m.method, "' not found" >>,
                     NoText)

\* BaseHandler.handleRequest
handleRequest(h, m, outcome) ==
    CASE m.method = "initialize" ->
           Call(h, m, UnmarshalParams(m, "InitializeParams"), "invalid initialize params",
                [invoked |-> << >>] @@ Initialize(h, InitializeParams(m.params)),
                "initialization failed")
      [] m.method = "tools/list" ->
           Returned(<< NewSuccessResponse(m.id, [kind |-> "list", tools |-> ListTools(h)]) >>,
                    h, << >>)
      [] m.method = "tools/call" ->
           Call(h, m, UnmarshalParams(m, "CallToolParams"), "invalid tool call params",
                CallTool(h, CallToolParams(m.params), outcome), "tool call failed")
      [] m.method = "resources/list" ->
           Returned(<< NewSuccessResponse(m.id, [kind |-> "list",
                                                resources |-> ListResources(h)]) >>,
                    h, << >>)
      [] m.method = "resources/read" ->
           Call(h, m, UnmarshalParams(m, "ReadResourceParams"),
                "invalid resource read params",
                ReadResource(h, ReadResourceParams(m.params), outcome),
                "resource read failed")
      [] m.method = "prompts/list" ->
           Returned(<< NewSuccessResponse(m.id, [kind |-> "list",
                                                prompts |-> ListPrompts(h)]) >>,
                    h, << >>)
      [] m.method = "prompts/get" ->
           Call(h, m, UnmarshalParams(m, "GetPromptParams"), "invalid prompt get params",
                GetPrompt(h, GetPromptParams(m.params), outcome), "prompt get failed")
      [] OTHER -> Returned(<< UnknownMethod(m) >>, h, << >>)

\* faulty variant: a cancellation resets the session
handleNotification_CancelResets(h, m) ==
    CASE m.method = "initialized" ->
           Returned(<< >>, [h EXCEPT !.initialized = TRUE], << >>)
      [] m.method = "notifications/cancelled" ->
           Returned(<< >>, [h EXCEPT !.initialized = FALSE], << >>)
      [] OTHER ->
           Returned(<< >>, h, << >>)

\* faulty variant: an unrecognized notification is answered like an unknown method
handleNotification_Replies(h, m) ==
    CASE m.method = "initialized" ->
           Returned(<< >>, [h EXCEPT !.initialized = TRUE], << >>)
      [] m.method = "notifications/cancelled" ->
           Returned(<< >>, h, << >>)
      [] OTHER ->
           Returned(<< UnknownMethod(m) >>, h, << >>)

\* BaseHandler.handleNotification
handleNotification(h, m) ==
    CASE m.method = "initialized" ->
           Returned(<< >>, [h EXCEPT !.initialized = TRUE], << >>)
      [] m.method = "notifications/cancelled" ->
           Returned(<< >>, h, << >>)
      [] OTHER ->
           Returned(<< >>, h, << >>)

\* faulty variant: the answer to a message of no shape loses the
\* message's identifier
HandleMessage_DropsID(h, m, outcome) ==
    IF m = Nil
    THEN Returned(<< NewErrorResponse(NoID, InvalidRequest, << "message cannot be nil" >>,
                                      NoText) >>,
                  h, << >>)
    ELSE IF IsRequest(m) THEN handleRequest(h, m, outcome)
    ELSE IF IsNotification(m) THEN handleNotification(h, m)
    ELSE Returned(<< NewErrorResponse(NoID, InvalidRequest, << "invalid message format" >>,
                                      NoText) >>,
                  h, << >>)

\* BaseHandler.HandleMessage; m is Nil for a nil *Message
HandleMessage(h, m, outcome) ==
    IF m = Nil
    THEN Returned(<< NewErrorResponse(NoID, InvalidRequest, << "message cannot be nil" >>,
                                      NoText) >>,
                  h, << >>)
    ELSE IF IsRequest(m) THEN handleRequest(h, m, outcome)
    ELSE IF IsNotification(m) THEN handleNotification(h, m)
    ELSE Returned(<< NewErrorResponse(m.id, InvalidRequest, << "invalid message format" >>,
                                      NoText) >>,
                  h, << >>)

\* ---------------------------------------------------------------------
\* The schema validator (validation.go). An operator gives the error the
\* Go function returns (NoText when nil). ValidateToolSchema and
\* ValidateToolParameters range over a Go map, whose iteration order is
\* unspecified: they give the set of the errors a call can return.
\* ---------------------------------------------------------------------

\* %T of a value
TypeName(v) == IF v.t = "nil" THEN "<nil>"
               ELSE IF v.t = "nil map" THEN "map[string]interface {}"
               ELSE v.t

\* %g / %f of a float64 (the digits only)
FormatFloat(halves) ==
    LET a == IF halves < 0 THEN -halves ELSE halves
        digits == IF a % 2 = 0 THEN << ToString(a \div 2) >>
                  ELSE << ToString(a \div 2), ".5" >>
    IN IF halves < 0 THEN << "-" >> \o digits ELSE digits

\* the first index of seq that satisfies Test, 0 when there is none
FirstIndex(seq, Test(_)) ==
    IF \E i \in 1..Len(seq) : Test(seq[i])
    THEN CHOOSE i \in 1..Len(seq) :
            Test(seq[i]) /\ \A j \in 1..(i - 1) : ~Test(seq[j])
    ELSE 0

\* the test the property validators repeat for a count constraint: when
\* present it must be a float64 and not negative
CountConstraint(prop, key) ==
    IF ~Exists(prop, key) THEN NoText
    ELSE IF prop.m[key].t # "float64" THEN << key, " must be a number" >>
    ELSE IF prop.m[key].n < 0 THEN << key, " cannot be negative" >>
    ELSE NoText

\* validateStringProperty
validateStringProperty(prop) ==
    LET enum == prop.m["enum"]
        notString(v) == v.t # "string"
    IN IF Exists(prop, "enum") /\ enum.t # "[]interface {}"
       THEN << "enum must be an array" >>
       ELSE IF Exists(prop, "enum") /\ Len(enum.e) = 0
       THEN << "enum cannot be empty" >>
       ELSE IF Exists(prop, "enum") /\ FirstIndex(enum.e, notString) # 0
       THEN << "enum value at index ", ToString(FirstIndex(enum.e, notString) - 1),
               " must be a string" >>
       ELSE IF CountConstraint(prop, "minLength") # NoText
       THEN CountConstraint(prop, "minLength")
       ELSE IF CountConstraint(prop, "maxLength") # NoText
       THEN CountConstraint(prop, "maxLength")
       ELSE IF Exists(prop, "pattern") /\ prop.m["pattern"].t # "string"
       THEN << "pattern must be a string" >>
       ELSE NoText

\* faulty variant: validateNumericProperty without the minimum > maximum test
validateNumericProperty_NoOrder(prop) ==
    IF Exists(prop, "minimum") /\ prop.m["minimum"].t # "float64"
    THEN << "minimum must be a number" >>
    ELSE IF Exists(prop, "maximum") /\ prop.m["maximum"].t # "float64"
    THEN << "maximum must be a number" >>
    ELSE NoText

\* validateNumericProperty
validateNumericProperty(prop) ==
    IF Exists(prop, "minimum") /\ prop.m["minimum"].t # "float64"
    THEN << "minimum must be a number" >>
    ELSE IF Exists(prop, "maximum") /\ prop.m["maximum"].t # "float64"
    THEN << "maximum must be a number" >>
    ELSE IF /\ Exists(prop, "minimum") /\ Exists(prop, "maximum")
            /\ prop.m["minimum"].n > prop.m["maximum"].n
    THEN << "minimum (" >> \o FormatFloat(prop.m["minimum"].n)
         \o << ") cannot be greater than maximum (" >>
         \o FormatFloat(prop.m["maximum"].n) \o << ")" >>
    ELSE IF /\ Exists(prop, "exclusiveMinimum")
            /\ prop.m["exclusiveMinimum"].t \notin {"bool", "float64"}
    THEN << "exclusiveMinimum must be a boolean or number" >>
    ELSE IF /\ Exists(prop, "exclusiveMaximum")
            /\ prop.m["exclusiveMaximum"].t \notin {"bool", "float64"}
    THEN << "exclusiveMaximum must be a boolean or number" >>
    ELSE NoText

\* validateArrayProperty
validateArrayProperty(prop) ==
    IF CountConstraint(prop, "minItems") # NoText
    THEN CountConstraint(prop, "minItems")
    ELSE IF CountConstraint(prop, "maxItems") # NoText
    THEN CountConstraint(prop, "maxItems")
    ELSE IF Exists(prop, "uniqueItems") /\ prop.m["uniqueItems"].t # "bool"
    THEN << "uniqueItems must be a boolean" >>
    ELSE NoText

\* validateObjectProperty
validateObjectProperty(prop) ==
    IF CountConstraint(prop, "minProperties") # NoText
    THEN CountConstraint(prop, "minProperties")
    ELSE CountConstraint(prop, "maxProperties")

validTypes == {"string", "number", "integer", "boolean", "array", "object"}

\* validateProperty
validateProperty(name, property) ==
    IF property.t = "nil"
    THEN << "property definition cannot be nil" >>
    ELSE IF property.t \notin {"map[string]interface {}", "nil map"}
    THEN << "property must be a map[string]interface{}" >>
    ELSE IF ~Exists(property, "type")
    THEN << "property type is required" >>
    ELSE IF property.m["type"].t # "string"
    THEN << "property type must be a string" >>
    ELSE LET typeStr == property.m["type"].s
         IN IF \A valid \in validTypes : typeStr # << valid >>
            THEN << "invalid property type '" >> \o typeStr \o << "'" >>
            ELSE CASE typeStr = << "string" >> -> validateStringProperty(property)
                   [] typeStr \in {<< "number" >>, << "integer" >>} ->
                        validateNumericProperty(property)
                   [] typeStr = << "array" >> -> validateArrayProperty(property)
                   [] typeStr = << "object" >> -> validateObjectProperty(property)
                   [] OTHER -> NoText

\* ValidateToolSchema: the errors the call can return
ValidateToolSchema(schema) ==
    LET props == schema.Properties
        missing(required) == ~Exists(props, required)
        invalid == {p \in DOMAIN props.m : validateProperty(p, props.m[p]) # NoText}
    IN IF schema.Type = ""
       THEN {<< "schema type is required" >>}
       ELSE IF schema.Type # "object"
       THEN {<< "schema type must be 'object', got '", schema.Type, "'" >>}
       ELSE IF props.t = "nil map"
       THEN {<< "schema properties cannot be nil" >>}
       ELSE IF DOMAIN props.m = {}
       THEN {<< "schema must have at least one property" >>}
       ELSE IF FirstIndex(schema.Required, missing) # 0
       THEN {<< "required property '",
                schema.Required[FirstIndex(schema.Required, missing)],
                "' not found in schema properties" >>}
       ELSE IF invalid # {}
       THEN {<< "invalid property '", p, "': " >> \o validateProperty(p, props.m[p]) :
                p \in invalid}
       ELSE {NoText}

RECURSIVE JoinStrings(_)
\* strings.Join(values, ", ") of string values
JoinStrings(values) ==
    IF values = << >> THEN << >>
    ELSE IF Len(values) = 1 THEN Head(values).s
    ELSE Head(values).s \o << ", " >> \o JoinStrings(Tail(values))

\* validateStringValue
validateStringValue(name, value, prop) ==
    LET enum == prop.m["enum"].e
        length == ByteLen(value.s)
    IN IF Exists(prop, "enum") /\ \A i \in 1..Len(enum) : enum[i] # value
       THEN << "parameter '", name, "' must be one of [" >> \o JoinStrings(enum)
            \o << "], got '" >> \o value.s \o << "'" >>
       ELSE IF Exists(prop, "minLength") /\ ToFloat64(length) < prop.m["minLength"].n
       THEN << "parameter '", name, "' must be at least " >>
            \o FormatFloat(prop.m["minLength"].n)
            \o << " characters long, got ", ToString(length) >>
       ELSE IF Exists(prop, "maxLength") /\ ToFloat64(length) > prop.m["maxLength"].n
       THEN << "parameter '", name, "' must be at most " >>
            \o FormatFloat(prop.m["maxLength"].n)
            \o << " characters long, got ", ToString(length) >>
       ELSE NoText

\* validateNumberValue: value is the float64, in halves
validateNumberValue(name, value, prop) ==
    IF Exists(prop, "minimum") /\ value < prop.m["minimum"].n
    THEN << "parameter '", name, "' must be >= " >> \o FormatFloat(prop.m["minimum"].n)
         \o << ", got " >> \o FormatFloat(value)
    ELSE IF Exists(prop, "maximum") /\ value > prop.m["maximum"].n
    THEN << "parameter '", name, "' must be <= " >> \o FormatFloat(prop.m["maximum"].n)
         \o << ", got " >> \o FormatFloat(value)
    ELSE NoText

\* validateArrayValue: the uniqueItems scan keys a Go map by the items,
\* which panics at the first item that cannot be hashed
validateArrayValue(name, value, prop) ==
    LET items == value.e
        stops(i) == ~Hashable(items[i]) \/ \E j \in 1..(i - 1) : items[j] = items[i]
        stop == IF \E i \in 1..Len(items) : stops(i)
                THEN CHOOSE i \in 1..Len(items) :
                        stops(i) /\ \A j \in 1..(i - 1) : ~stops(j)
                ELSE 0
    IN IF Exists(prop, "minItems") /\ ToFloat64(Len(items)) < prop.m["minItems"].n
       THEN << "parameter '", name, "' must have at least " >>
            \o FormatFloat(prop.m["minItems"].n)
            \o << " items, got ", ToString(Len(items)) >>
       ELSE IF Exists(prop, "maxItems") /\ ToFloat64(Len(items)) > prop.m["maxItems"].n
       THEN << "parameter '", name, "' must have at most " >>
            \o FormatFloat(prop.m["maxItems"].n)
            \o << " items, got ", ToString(Len(items)) >>
       ELSE IF Exists(prop, "uniqueItems") /\ prop.m["uniqueItems"].b /\ stop # 0
       THEN IF ~Hashable(items[stop])
            THEN Panic("runtime error: hash of unhashable type")
            ELSE << "parameter '", name,
                    "' must have unique items, duplicate found at index ",
                    ToString(stop - 1) >>
       ELSE NoText

\* validateParameterValue
validateParameterValue(name, value, property) ==
    IF property.t \notin {"map[string]interface {}", "nil map"}
    THEN << "invalid property definition for '", name, "'" >>
    ELSE IF ~Exists(property, "type")
    THEN << "property type not defined for '", name, "'" >>
    ELSE IF property.m["type"].t # "string"
    THEN << "invalid type definition for '", name, "'" >>
    ELSE LET typeStr == property.m["type"].s
             got == << ", got ", TypeName(value) >>
         IN CASE typeStr = << "string" >> ->
                   IF value.t # "string"
                   THEN << "parameter '", name, "' must be a string" >> \o got
                   ELSE validateStringValue(name, value, property)
              [] typeStr = << "number" >> ->
                   IF value.t # "float64"
                   THEN << "parameter '", name, "' must be a number" >> \o got
                   ELSE validateNumberValue(name, value.n, property)
              [] typeStr = << "integer" >> ->
                   IF value.t = "float64" /\ value.n % 2 # 0
                   THEN << "parameter '", name, "' must be an integer, got " >>
                        \o FormatFloat(value.n)
                   ELSE IF value.t \notin {"float64", "int"}
                   THEN << "parameter '", name, "' must be an integer" >> \o got
                   ELSE validateNumberValue(
                            name,
                            IF value.t = "float64" THEN value.n ELSE ToFloat64(value.n),
                            property)
              [] typeStr = << "boolean" >> ->
                   IF value.t # "bool"
                   THEN << "parameter '", name, "' must be a boolean" >> \o got
                   ELSE NoText
              [] typeStr = << "array" >> ->
                   IF value.t # "[]interface {}"
                   THEN << "parameter '", name, "' must be an array" >> \o got
                   ELSE validateArrayValue(name, value, property)
              [] typeStr = << "object" >> ->
                   IF value.t # "map[string]interface {}"
                   THEN << "parameter '", name, "' must be an object" >> \o got
                   ELSE NoText
              [] OTHER ->
                   << "unsupported type '" >> \o typeStr
                   \o << "' for parameter '", name, "'" >>

\* faulty variant: ValidateToolParameters that ignores undeclared names
ValidateToolParameters_OpenWorld(params, schema) ==
    LET given == IF params.t = "nil map" THEN Map(EmptyMap) ELSE params
        missing(required) == ~Exists(given, required)
        declared == {p \in DOMAIN given.m : Exists(schema.Properties, p)}
        failing == {p \in declared :
                      validateParameterValue(p, given.m[p], schema.Properties.m[p]) # NoText}
    IN IF NoText \notin ValidateToolSchema(schema)
       THEN {<< "invalid schema: " >> \o err : err \in ValidateToolSchema(schema)}
       ELSE IF FirstIndex(schema.Required, missing) # 0
       THEN {<< "required parameter '",
                schema.Required[FirstIndex(schema.Required, missing)],
                "' is missing" >>}
       ELSE IF failing # {}
       THEN {validateParameterValue(p, given.m[p], schema.Properties.m[p]) : p \in failing}
       ELSE {NoText}

\* ValidateToolParameters: the errors the call can return
ValidateToolParameters(params, schema) ==
    LET given == IF params.t = "nil map" THEN Map(EmptyMap) ELSE params
        missing(required) == ~Exists(given, required)
        fails(p) ==
            IF ~Exists(schema.Properties, p)
            THEN << "unknown parameter '", p, "'" >>
            ELSE validateParameterValue(p, given.m[p], schema.Properties.m[p])
        failing == {p \in DOMAIN given.m : fails(p) # NoText}
    IN IF NoText \notin ValidateToolSchema(schema)
       THEN {<< "invalid schema: " >> \o err : err \in ValidateToolSchema(schema)}
       ELSE IF FirstIndex(schema.Required, missing) # 0
       THEN {<< "required parameter '",
                schema.Required[FirstIndex(schema.Required, missing)],
                "' is missing" >>}
       ELSE IF failing # {}
       THEN {fails(p) : p \in failing}
       ELSE {NoText}

\* ---------------------------------------------------------------------
\* Schemas and argument maps the validator is applied to
\* ---------------------------------------------------------------------

\* a property definition of the kind with the constraints
Property(kind, constraints) == Map(("type" :> Word(kind)) @@ constraints)

Unconstrained == EmptyMap

WellFormedProperties ==
    {Property("string", Unconstrained),
     Property("string", ("minLength" :> Float64(2)) @@ ("maxLength" :> Float64(4))),
     Property("string", "maxLength" :> Float64(2)),
     Property("string", "enum" :> Slice(<< Str(<< "a" >>), Str(<< "a", "b" >>) >>)),
     Property("string", "pattern" :> Word("^a")),
     Property("number", Unconstrained),
     Property("number", ("minimum" :> Float64(2)) @@ ("maximum" :> Float64(4))),
     Property("number", ("minimum" :> Float64(3)) @@ ("maximum" :> Float64(3))),
     Property("number", ("minimum" :> Float64(2)) @@ ("exclusiveMinimum" :> Bool(TRUE))),
     Property("integer", ("minimum" :> Float64(2)) @@ ("maximum" :> Float64(6))),
     Property("boolean", Unconstrained),
     Property("array", Unconstrained),
     Property("array", ("minItems" :> Float64(2)) @@ ("maxItems" :> Float64(4))),
     Property("array", "uniqueItems" :> Bool(TRUE)),
     Property("object", ("minProperties" :> Float64(0)))}

IllFormedProperties ==
    {NilValue,
     Word("string"),
     Map(EmptyMap),
     Map("type" :> Float64(2)),
     Property("date", Unconstrained),
     Property("string", "enum" :> StringSlice(<< Str(<< "a" >>) >>)),
     Property("string", "enum" :> Slice(<< >>)),
     Property("string", "enum" :> Slice(<< Str(<< "a" >>), Float64(2) >>)),
     Property("string", "minLength" :> GoInt(1)),
     Property("string", "maxLength" :> Float64(-2)),
     Property("string", "pattern" :> Bool(TRUE)),
     Property("number", ("minimum" :> Float64(4)) @@ ("maximum" :> Float64(2))),
     Property("integer", ("minimum" :> Float64(6)) @@ ("maximum" :> Float64(3))),
     Property("number", "minimum" :> GoInt(1)),
     Property("number", "exclusiveMaximum" :> Word("yes")),
     Property("array", "minItems" :> Float64(-2)),
     Property("array", "uniqueItems" :> Word("yes")),
     Property("object", "maxProperties" :> Float64(-2))}

\* the schemas tried: one property p of every definition, required or
\* not; two properties; and the top-level defects
Schemas ==
    {ToolSchema("object", Map("p" :> d), required) :
        d \in WellFormedProperties \cup IllFormedProperties,
        required \in {<< >>, << "p" >>}}
    \cup
    {ToolSchema("object",
                Map(("p" :> Property("string", Unconstrained))
                    @@ ("q" :> Property("number", ("minimum" :> Float64(2))
                                                   @@ ("maximum" :> Float64(4))))),
                required) :
        required \in {<< >>, << "q" >>, << "p", "q" >>}}
    \cup
    {ToolSchema("", Map("p" :> Property("string", Unconstrained)), << >>),
     ToolSchema("array", Map("p" :> Property("string", Unconstrained)), << >>),
     ToolSchema("object", NilMap, << >>),
     ToolSchema("object", Map(EmptyMap), << >>),
     ToolSchema("object", Map("p" :> Property("string", Unconstrained)), << "p", "z" >>),
     ToolSchema("object",
                Map(("p" :> Property("date", Unconstrained)) @@ ("q" :> NilValue)),
                << >>)}

\* the values tried for the argument p
Values ==
    {NilValue, Bool(TRUE),
     Str(<< >>), Str(<< "a" >>), Str(<< "a", "b" >>), Str(<< "a", "b", "c" >>),
     Str(<< "é" >>), Str(<< "é", "é" >>),
     Float64(0), Float64(2), Float64(3), Float64(4), Float64(5), Float64(6), Float64(8),
     GoInt(1), GoInt(3), GoInt(4),
     Slice(<< >>), Slice(<< Float64(2) >>), Slice(<< Float64(2), Float64(2) >>),
     Slice(<< Float64(2), GoInt(1) >>),
     Slice(<< Float64(2), Float64(4), Float64(6) >>),
     Slice(<< Float64(0), Float64(2), Float64(4), Float64(6), Float64(8) >>),
     Slice(<< Slice(<< >>) >>),
     Slice(<< Map(EmptyMap), Map(EmptyMap) >>),
     StringSlice(<< Str(<< "a" >>) >>),
     Map(EmptyMap)}

\* the argument maps tried: p with any value or absent, q with a value
\* inside or outside its bounds or absent, the undeclared x or not
ArgumentMaps ==
    {NilMap}
    \cup
    {Map([k \in names |->
            CASE k = "p" -> p
              [] k = "q" -> q
              [] OTHER -> Bool(TRUE)]) :
        <<names, p, q>> \in
            {t \in (SUBSET {"p", "q", "x"}) \X Values \X {Float64(4), Float64(10)} :
                /\ ("p" \notin t[1]) => t[2] = NilValue
                /\ ("q" \notin t[1]) => t[3] = Float64(4)}}

\* CalculatorTool.Definition().InputSchema, for the operations the tool offers
CalculatorSchema(operations) ==
    ToolSchema("object",
               Map(("operation" :>
                        Property("string",
                                 ("enum" :> StringSlice(operations))
                                 @@ ("description" :> Word("The mathematical operation to perform"))))
                   @@ ("a" :> Property("number", "description" :> Word("The first number")))
                   @@ ("b" :> Property("number", "description" :> Word("The second number")))),
               << "operation", "a", "b" >>)

\* NewWebSearchTool: the InputSchema of the definition, as the Go literal
\* gives it: untyped integer constants are ints, the enum is a []string
WebSearchSchema ==
    ToolSchema("object",
               Map(("query" :>
                        Property("string",
                                 ("description" :> Word("The search query to execute"))
                                 @@ ("minLength" :> GoInt(1))
                                 @@ ("maxLength" :> GoInt(500))))
                   @@ ("max_results" :>
                        Property("integer",
                                 ("description" :> Word("Maximum number of results to return (default: 10, max: 50)"))
                                 @@ ("default" :> GoInt(10))
                                 @@ ("minimum" :> GoInt(1))
                                 @@ ("maximum" :> GoInt(50))))
                   @@ ("engine" :>
                        Property("string",
                                 ("description" :> Word("Search engine to use (auto tries multiple engines)"))
                                 @@ ("enum" :> StringSlice(<< Word("duckduckgo"), Word("searxng"),
                                                              Word("brave"), Word("auto") >>))
                                 @@ ("default" :> Word("auto"))))
                   @@ ("safe_search" :>
                        Property("boolean",
                                 ("description" :> Word("Enable safe search filtering"))
                                 @@ ("default" :> Bool(TRUE))))
                   @@ ("language" :>
                        Property("string",
                                 ("description" :> Word("Language preference for results (ISO 639-1 code)"))
                                 @@ ("default" :> Word("en"))
                                 @@ ("pattern" :> Word("^[a-z]{2}$"))))
                   @@ ("region" :>
                        Property("string",
                                 ("description" :> Word("Geographic region for search results"))
                                 @@ ("default" :> Word("us-en"))))),
               << "query" >>)

\* ToolHandler.Definition().InputSchema
InputSchema(handler) ==
    CASE handler = "calculatorTool" ->
           CalculatorSchema(<< Word("add"), Word("subtract"), Word("multiply"),
                               Word("divide") >>)
      [] handler = "powerCalculatorTool" ->
           CalculatorSchema(<< Word("add"), Word("subtract"), Word("multiply"),
                               Word("divide"), Word("power") >>)
      [] handler = "webSearchTool" -> WebSearchSchema
      [] OTHER -> ToolSchema("", NilMap, << >>)

\* CallToolParams.Arguments as decoded from the params: no arguments
\* member leaves the map nil; the object tried is a calculator call
Arguments(params) ==
    IF params.arguments = "map"
    THEN Map(("operation" :> Word("add")) @@ ("a" :> Float64(2)) @@ ("b" :> Float64(4)))
    ELSE NilMap

\* ---------------------------------------------------------------------
\* The sanitizer (validation.go). The length ceiling of the code, 10000
\* bytes, is scaled down to MaxStringLength.
\* ---------------------------------------------------------------------
MaxStringLength == 2

\* unicode.IsSpace, on the characters tried
IsSpace(ch) == ch \in {" ", "\t"}

RECURSIVE TrimLeft(_)
TrimLeft(s) == IF s # << >> /\ IsSpace(Head(s)) THEN TrimLeft(Tail(s)) ELSE s

RECURSIVE TrimRight(_)
TrimRight(s) ==
    IF s # << >> /\ IsSpace(s[Len(s)]) THEN TrimRight(SubSeq(s, 1, Len(s) - 1)) ELSE s

\* strings.TrimSpace
TrimSpace(s) == TrimRight(TrimLeft(s))

\* faulty variant: no cut at the ceiling
Truncate_Keep(s, n) == s

RECURSIVE Truncate(_, _)
\* s[:n], a slice of the first n bytes: a character the cut falls into
\* is left as its first byte
Truncate(s, n) ==
    IF s = << >> \/ n = 0 THEN << >>
    ELSE IF Utf8Len(Head(s)) <= n
    THEN << Head(s) >> \o Truncate(Tail(s), n - Utf8Len(Head(s)))
    ELSE << "\\xC3" >>

RECURSIVE sanitizeValue(_)
\* sanitizeValue
sanitizeValue(value) ==
    CASE value.t = "string" ->
           LET trimmed == TrimSpace(value.s)
           IN IF ByteLen(trimmed) > MaxStringLength
              THEN Str(Truncate(trimmed, MaxStringLength))
              ELSE Str(trimmed)
      [] value.t \in {"map[string]interface {}", "nil map"} ->
           Map([key \in DOMAIN value.m |-> sanitizeValue(value.m[key])])
      [] value.t = "[]interface {}" ->
           Slice([i \in 1..Len(value.e) |-> sanitizeValue(value.e[i])])
      [] OTHER -> value

\* SanitizeParameters
SanitizeParameters(params) ==
    IF params.t = "nil map" THEN Map(EmptyMap)
    ELSE Map([key \in DOMAIN params.m |-> sanitizeValue(params.m[key])])

\* the strings tried: up to three characters out of a letter, a space
\* and a two-byte letter
Characters == {"a", " ", "é"}

Strings ==
    {<< >>} \cup {<< c >> : c \in Characters}
    \cup {<< c, d >> : c, d \in Characters}
    \cup {<< c, d, e >> : c, d, e \in Characters}

\* the values tried under a key: a string, another scalar, and the string
\* inside a slice, a []string and a nested map
Leaves == {Str(s) : s \in Strings} \cup {NilValue, Bool(TRUE), Float64(3), GoInt(7)}

Trees ==
    Leaves
    \cup {Slice(<< Str(s), Float64(3) >>) : s \in Strings}
    \cup {StringSlice(<< Str(s) >>) : s \in Strings}
    \cup {Map("inner" :> Str(s)) : s \in Strings}
    \cup {Slice(<< >>), NilMap, Slice(<< Map("inner" :> Slice(<< Str(<< " ", "a" >>) >>)) >>)}

\* the argument maps given to SanitizeParameters
ArgumentTrees == {NilMap, Map(EmptyMap)} \cup {Map("p" :> v) : v \in Trees}

\* ---------------------------------------------------------------------
\* The web search tool (web_search.go): Execute and searchWithRetry. The
\* searches go to the network: what a search returns is one of "error"
\* (nil results and an error), "empty" (no error, no results) and "some"
\* (no error, results), chosen by the environment.
\* ---------------------------------------------------------------------
\* SearchEngineConfig.MaxRetries of every engine NewWebSearchTool sets up
MaxRetries == 2

\* the ceiling of the query length Execute enforces (500 in the code)
MaxQueryLength == 2

\* w.engines as NewWebSearchTool builds it
Engines ==
    [duckduckgo |-> [Name |-> "DuckDuckGo", Enabled |-> TRUE, MaxRetries |-> MaxRetries],
     searxng |-> [Name |-> "SearXNG", Enabled |-> TRUE, MaxRetries |-> MaxRetries],
     brave |-> [Name |-> "Brave Search", Enabled |-> FALSE, MaxRetries |-> MaxRetries]]

\* the engine names given to searchWithRetry
EngineNames == DOMAIN Engines \cup {"yahoo"}

\* searchWithRetry: "!exists || !engineConfig.Enabled"
Available(engineName) == engineName \in DOMAIN Engines /\ Engines[engineName].Enabled

\* what searchDuckDuckGo, searchSearXNG and searchBrave can return
SearchOutcomes(engineName) ==
    IF engineName = "brave" THEN {"error"} ELSE {"error", "empty", "some"}

\* the results after a search with the outcome
ResultsOf(outcome) ==
    CASE outcome = "some" -> "some"
      [] outcome = "empty" -> "empty"
      [] OTHER -> "nil"

\* Execute: the query parameter as a string, << >> when it is absent or
\* no string
QueryOf(params) ==
    IF Exists(params, "query") /\ params.m["query"].t = "string"
    THEN params.m["query"].s
    ELSE << >>

\* Execute: the engine parameter, "auto" when it is absent or no string
EngineOf(params) ==
    IF Exists(params, "engine") /\ params.m["engine"].t = "string"
    THEN params.m["engine"].s[1]
    ELSE "auto"

\* Execute: max_results, 10 when absent, no float64 or out of 1..50
MaxResultsOf(params) ==
    LET given == IF Exists(params, "max_results") /\ params.m["max_results"].t = "float64"
                 THEN params.m["max_results"].n \div 2
                 ELSE 10
    IN IF given < 1 \/ given > 50 THEN 10 ELSE given

\* Execute: the reason for which the query is refused, NoText if none
QueryRefused(params) ==
    IF QueryOf(params) = << >>
    THEN << "Error: query parameter is required and must be a non-empty string" >>
    ELSE IF ByteLen(TrimSpace(QueryOf(params))) = 0
    THEN << "Error: query cannot be empty after trimming whitespace" >>
    ELSE IF ByteLen(TrimSpace(QueryOf(params))) > MaxQueryLength
    THEN << "Error: query too long" >>
    ELSE NoText

\* simulateSearch: the number of results; four are always built, then cut
\* to maxResults; none and an error for the empty query
simulateSearch(query, maxResults) ==
    IF query = << >> THEN 0
    ELSE IF maxResults < 4 THEN maxResults ELSE 4

\* Execute, engine "auto": engineOrder
engineOrder == << "duckduckgo", "searxng" >>

\* the queries given to Execute: none, blank, short, with surrounding
\* blanks, and longer than the ceiling
Queries ==
    {<< >>, << " " >>, << "a" >>, << " ", "a", " " >>,
     [i \in 1..(MaxQueryLength + 1) |-> "a"]}

\* the argument maps given to Execute
SearchParams ==
    {Map(EmptyMap), Map("query" :> Float64(2))}
    \cup {Map("query" :> Str(q)) : q \in Queries}
    \cup {Map(("query" :> Str(q)) @@ ("engine" :> Word(e))) :
            q \in Queries, e \in {"duckduckgo", "searxng", "brave", "auto", "yahoo"}}
    \cup {Map(("query" :> Str(<< "a" >>)) @@ ("max_results" :> Float64(n))) : n \in {0, 2, 120}}

\* ---------------------------------------------------------------------
\* The registries (internal/tools/registry.go, internal/prompts/
\* registry.go: the same code for tools and for prompts). A registry is
\* given by its map; an operator gives what the Go method returns and,
\* where the method writes, the registry after the call. The lock every
\* method takes is modelled with the callers, further down.
\* ---------------------------------------------------------------------

\* the handlers offered to a registry: the tools main registers, one
\* more tool, and a handler whose Definition() is nil
RegistryHandlers == ToolHandlers \cup {"webSearchTool", "undefinedTool"}

\* handler.Definition() != nil
Defined(handler) == handler # "undefinedTool"

\* handler.Definition().Name
DefinitionName(handler) ==
    IF handler = "webSearchTool" THEN "web_search" ELSE DefinitionKey(handler)

\* the names asked for: the two declared ones and one nobody declares
RegistryNames == {"calculator", "web_search", "nonexistent"}

\* NewRegistry
NewRegistry == [tools |-> EmptyTable]

\* faulty variant: Register without the test for a registered name
Register_Overwrite(r, handler) ==
    IF ~Defined(handler)
    THEN [r |-> r, err |-> << "tool definition cannot be nil" >>]
    ELSE IF DefinitionName(handler) = ""
    THEN [r |-> r, err |-> << "tool name cannot be empty" >>]
    ELSE [r |-> [r EXCEPT !.tools = Put(r.tools, DefinitionName(handler), handler)],
          err |-> NoText]

\* Registry.Register
Register(r, handler) ==
    IF ~Defined(handler)
    THEN [r |-> r, err |-> << "tool definition cannot be nil" >>]
    ELSE IF DefinitionName(handler) = ""
    THEN [r |-> r, err |-> << "tool name cannot be empty" >>]
    ELSE IF DefinitionName(handler) \in DOMAIN r.tools
    THEN [r |-> r,
          err |-> << "tool '", DefinitionName(handler), "' is already registered" >>]
    ELSE [r |-> [r EXCEPT !.tools = Put(r.tools, DefinitionName(handler), handler)],
          err |-> NoText]

\* delete(r.tools, name)
Delete(table, name) == [n \in (DOMAIN table) \ {name} |-> table[n]]

\* faulty variant: Unregister that reports success and deletes nothing
Unregister_Keeps(r, name) ==
    IF name \notin DOMAIN r.tools
    THEN [r |-> r, err |-> << "tool '", name, "' is not registered" >>]
    ELSE [r |-> r, err |-> NoText]

\* Registry.Unregister
Unregister(r, name) ==
    IF name \notin DOMAIN r.tools
    THEN [r |-> r, err |-> << "tool '", name, "' is not registered" >>]
    ELSE [r |-> [r EXCEPT !.tools = Delete(r.tools, name)], err |-> NoText]

\* Registry.Get: the handler ("" for nil) and the error
Get(r, name) ==
    IF name \notin DOMAIN r.tools
    THEN [handler |-> "", err |-> << "tool '", name, "' not found" >>]
    ELSE [handler |-> r.tools[name], err |-> NoText]

RECURSIVE InSomeOrder(_)
\* the elements of a set as a slice; Go leaves the order of a map
\* iteration open, one order is given
InSomeOrder(set) ==
    IF set = {} THEN << >>
    ELSE LET x == CHOOSE x \in set : TRUE
         IN << x >> \o InSomeOrder(set \ {x})

\* Registry.List: the definitions, by their names
List(r) ==
    LET names == InSomeOrder(DOMAIN r.tools)
    IN [i \in 1..Len(names) |-> DefinitionName(r.tools[names[i]])]

\* Registry.Count
Count(r) == Cardinality(DOMAIN r.tools)

\* Registry.GetToolNames / GetPromptNames
GetToolNames(r) == InSomeOrder(DOMAIN r.tools)

\* Registry.HasTool / HasPrompt
HasTool(r, name) == name \in DOMAIN r.tools

\* Registry.Clear
Clear(r) == [r EXCEPT !.tools = EmptyTable]

\* ---------------------------------------------------------------------
\* The program: main builds one BaseHandler, registers collaborators and
\* starts the server (cmd/server/main.go); the server runs
\* handleConnection for every connection, all on that one handler
\* (server.go).
\* ---------------------------------------------------------------------
Conns == {"A", "B"}

\* the ids a connection delivers, as json.Unmarshal leaves them: the
\* JSON string "1" and the JSON number 2
IDs == {Str(<< "1" >>), Float64(4)}

\* cfg.MCP.Name / cfg.MCP.Version and createServerCapabilities(cfg), for
\* the default configuration
ServerInfo == [name |-> "mcp-go-template", version |-> "1.0.0"]

ServerCapabilities == [logging |-> TRUE, tools |-> TRUE, resources |-> TRUE,
                       prompts |-> TRUE]

Methods == {"", "initialize", "initialized", "notifications/cancelled",
            "tools/list", "tools/call", "resources/list", "resources/read",
            "prompts/list", "prompts/get", "tools/unknown"}

\* the params payloads tried with each method
InboundParams(method) ==
    CASE method = "initialize" ->
           {Nil, ParamsScalar,
            ParamsObject(MCPVersion, "", "", "absent"),
            ParamsObject("2023-01-01", "", "", "absent"),
            ParamsObject("", "calculator", "", "scalar")}
      [] method = "tools/call" ->
           {Nil, ParamsScalar,
            ParamsObject("", "calculator", "", "map"),
            ParamsObject("", "calculator", "", "absent"),
            ParamsObject("", "calculator", "", "scalar"),
            ParamsObject("", "nonexistent", "", "map")}
      [] method = "resources/read" ->
           {Nil,
            ParamsObject("", "", "file:///notes", "absent"),
            ParamsObject("", "", "file:///missing", "absent")}
      [] method = "prompts/get" ->
           {Nil,
            ParamsObject("", "greeting", "", "absent"),
            ParamsObject("", "nonexistent", "", "scalar"),
            ParamsObject("", "nonexistent", "", "map")}
      [] OTHER -> {Nil}

\* the decoded envelopes a connection can deliver
Inbound ==
    {Message(id, method, params, Nil, Nil) :
        <<id, method, params>> \in
            {t \in (IDs \cup {NoID}) \X Methods \X
                   UNION {InboundParams(mm) : mm \in Methods} :
               t[3] \in InboundParams(t[2])}}

\* a WebSocket frame as handleConnection sees it: its type, whether its
\* data is valid JSON for Message, and the decoded Message
TextFrame(m) == [type |-> "text", json |-> TRUE, msg |-> m]

BadJSONFrame == [type |-> "text", json |-> FALSE, msg |-> Nil]

BinaryFrame == [type |-> "binary", json |-> FALSE, msg |-> Nil]

NoFrame == [type |-> "none", json |-> FALSE, msg |-> Nil]

Frames == {TextFrame(m) : m \in Inbound} \cup {BadJSONFrame, BinaryFrame}

VARIABLES
    phase,      \* main: "setup", "serving", or "failed" (logger.Fatal)
    h,          \* the BaseHandler main creates; Server.handler
    pc,         \* pc[c]: where handleConnection(c) is: "read", "handle", "send", "closed"
    cur,        \* cur[c]: the frame of the current loop iteration
    resp,       \* cur iteration: what HandleMessage returned (<< >> is nil)
    sent,       \* cur iteration: the messages written to the connection
    invoked,    \* cur iteration: the collaborators HandleMessage called
    handshook,  \* history: c got a success response to `initialize`
    announced,  \* history: an `initialized` notification of c was handled
    val,        \* a call of the schema validator: its inputs and what it returned
    reg,        \* a registry used by one caller: its map, the log of the
                \* writes that succeeded, and the last call with what it returned
    rw,         \* a registry used by concurrent callers: its map, its
                \* sync.RWMutex, and where each caller is in its call
    san,        \* a call of the sanitizer: the argument map as it was given,
                \* as it is now, and what the call returned
    rt,         \* a message on its way through the encoding: as built, as
                \* encoded, as decoded
    ws          \* the web search tool: its lastRequest map and where the
                \* call under way is

vars == <<phase, h, pc, cur, resp, sent, invoked, handshook, announced, val, reg, rw,
          san, rt, ws>>

conn == <<pc, cur, resp, sent, invoked>>

history == <<handshook, announced>>

\* the variables of the library calls, which the server never touches
library == <<val, reg, rw, san, rt, ws>>

\* no validator call is under way
NoValidation ==
    [schema |-> ToolSchema("", NilMap, << >>), params |-> NilMap,
     op |-> "none", err |-> NoText]

\* a call on a registry as `reg` keeps it: the method, its argument, and
\* what came back (err; handler for Get; n for Count and the length of
\* List; ok for HasTool)
RegistryCall(op, arg, err, handler, n, ok) ==
    [op |-> op, arg |-> arg, err |-> err, handler |-> handler, n |-> n, ok |-> ok]

NoCall == RegistryCall("none", "", NoText, "", 0, FALSE)

\* no registry is in use
NoRegistry == [r |-> NewRegistry, log |-> << >>, last |-> NoCall]

ValidatorIdle == val = NoValidation

RegistryIdle == reg = NoRegistry

\* the goroutines that call into one registry at the same time
Callers == {"g1", "g2"}

\* a caller between two calls, as `rw` keeps it: where it is ("idle",
\* "wait" for the lock, "held", "checked", "done"), the method and its
\* argument, what its test of the map found, what it saw of the map when
\* it began to read, and what it returned
Caller(at, op, arg, exists, seen, err) ==
    [at |-> at, op |-> op, arg |-> arg, exists |-> exists, seen |-> seen, err |-> err]

\* a sync.RWMutex: the caller holding Lock ("" for none), the callers
\* holding RLock
RWMutex(writer, readers) == [writer |-> writer, readers |-> readers]

\* NewRegistry, with nobody calling
NoCallers ==
    [tools |-> EmptyTable,
     mutex |-> RWMutex("", {}),
     callers |-> [g \in Callers |-> Caller("idle", "none", "", FALSE, EmptyTable, NoText)],
     raced |-> FALSE]

SharedRegistryIdle == rw = NoCallers

\* no sanitizer call is under way
NoSanitizing == [given |-> NilMap, params |-> NilMap, returned |-> FALSE, result |-> NilMap]

SanitizerIdle == san = NoSanitizing

\* no message is on its way through the encoding
NoRoundTrip ==
    [stage |-> "none", built |-> NewNotification("", Nil), wire |-> EmptyMap,
     decoded |-> NewNotification("", Nil)]

CodecIdle == rt = NoRoundTrip

\* the tool between two calls; lastRequest is kept from call to call
SearchIdle(lastRequest) ==
    [at |-> "idle", caller |-> "none", mode |-> "", params |-> NilMap, next |-> 1,
     engineName |-> "", throttled |-> FALSE, attempt |-> 0, attempts |-> 0,
     waits |-> 0, recorded |-> 0, outcomes |-> << >>, results |-> "nil",
     engine |-> "", errors |-> << >>, searchErrors |-> 0,
     lastRequest |-> lastRequest, isError |-> FALSE, text |-> NoText]

\* the tool as NewWebSearchTool builds it
NoSearch == SearchIdle({})

SearchToolIdle == ws = NoSearch

NoLibraryCall ==
    /\ ValidatorIdle
    /\ RegistryIdle
    /\ SharedRegistryIdle
    /\ SanitizerIdle
    /\ CodecIdle
    /\ SearchToolIdle

Init ==
    /\ phase = "setup"
    /\ h = NewBaseHandler(ServerInfo, ServerCapabilities)
    /\ pc = [c \in Conns |-> "read"]
    /\ cur = [c \in Conns |-> NoFrame]
    /\ resp = [c \in Conns |-> << >>]
    /\ sent = [c \in Conns |-> << >>]
    /\ invoked = [c \in Conns |-> << >>]
    /\ handshook = [c \in Conns |-> FALSE]
    /\ announced = [c \in Conns |-> FALSE]
    /\ NoLibraryCall

\* main.registerTools: a failed registration ends the program
Setup(r) ==
    /\ phase = "setup"
    /\ h' = r.h
    /\ phase' = IF r.err # NoText THEN "failed" ELSE "setup"
    /\ UNCHANGED <<conn, history, library>>

DoRegisterTool == \E t \in ToolHandlers : Setup(RegisterTool(h, t))

DoRegisterResource == \E t \in ResourceHandlers : Setup(RegisterResource(h, t))

DoRegisterPrompt == \E t \in PromptHandlers : Setup(RegisterPrompt(h, t))

\* srv.Start
Start ==
    /\ phase = "setup"
    /\ phase' = "serving"
    /\ UNCHANGED <<h, conn, history, library>>

\* handleConnection: conn.ReadMessage fails; the loop is left
ReadFails(c) ==
    /\ phase = "serving"
    /\ pc[c] = "read"
    /\ pc' = [pc EXCEPT ![c] = "closed"]
    /\ cur' = [cur EXCEPT ![c] = NoFrame]
    /\ resp' = [resp EXCEPT ![c] = << >>]
    /\ sent' = [sent EXCEPT ![c] = << >>]
    /\ invoked' = [invoked EXCEPT ![c] = << >>]
    /\ UNCHANGED <<phase, h, history, library>>

\* faulty variant: the next frame is read while the message before it is
\* still being handled or its response is still to be written
ReadMessage_Early(c, frames) ==
    /\ phase = "serving"
    /\ pc[c] \in {"read", "handle", "send"}
    /\ \E f \in frames :
         /\ cur' = [cur EXCEPT ![c] = f]
         /\ resp' = [resp EXCEPT ![c] = << >>]
         /\ invoked' = [invoked EXCEPT ![c] = << >>]
         /\ IF f.type # "text"
            THEN /\ sent' = [sent EXCEPT ![c] = << >>]
                 /\ pc' = [pc EXCEPT ![c] = "read"]
            ELSE IF ~f.json
            THEN /\ sent' = [sent EXCEPT ![c] =
                        << NewErrorResponse(NoID, ParseError, << "Invalid JSON" >>,
                                            << "invalid character" >>) >>]
                 /\ pc' = [pc EXCEPT ![c] = "read"]
            ELSE /\ sent' = [sent EXCEPT ![c] = << >>]
                 /\ pc' = [pc EXCEPT ![c] = "handle"]
    /\ UNCHANGED <<phase, h, history, library>>

\* handleConnection: conn.ReadMessage, the frame type test and json.Unmarshal
ReadMessage(c, frames) ==
    /\ phase = "serving"
    /\ pc[c] = "read"
    /\ \E f \in frames :
         /\ cur' = [cur EXCEPT ![c] = f]
         /\ resp' = [resp EXCEPT ![c] = << >>]
         /\ invoked' = [invoked EXCEPT ![c] = << >>]
         /\ IF f.type # "text"
            THEN /\ sent' = [sent EXCEPT ![c] = << >>]
                 /\ pc' = pc
            ELSE IF ~f.json
            THEN /\ sent' = [sent EXCEPT ![c] =
                        << NewErrorResponse(NoID, ParseError, << "Invalid JSON" >>,
                                            << "invalid character" >>) >>]
                 /\ pc' = pc
            ELSE /\ sent' = [sent EXCEPT ![c] = << >>]
                 /\ pc' = [pc EXCEPT ![c] = "handle"]
    /\ UNCHANGED <<phase, h, history, library>>

\* handleConnection: s.handler.HandleMessage(ctx, &message)
Handle(c) ==
    /\ pc[c] = "handle"
    /\ \E outcome \in ToolOutcomes :
         LET m == cur[c].msg
             r == HandleMessage(h, m, outcome)
         IN /\ h' = r.h
            /\ invoked' = [invoked EXCEPT ![c] = r.invoked]
            /\ IF r.err # NoText
               THEN /\ resp' = resp
                    /\ sent' = [sent EXCEPT ![c] =
                           << NewErrorResponse(m.id, InternalError,
                                               << "Internal server error" >>, r.err) >>]
                    /\ pc' = [pc EXCEPT ![c] = "read"]
               ELSE /\ resp' = [resp EXCEPT ![c] = r.msg]
                    /\ sent' = sent
                    /\ pc' = [pc EXCEPT ![c] = "send"]
            /\ handshook' = [handshook EXCEPT ![c] =
                   @ \/ (IsRequest(m) /\ m.method = "initialize"
                         /\ r.msg # << >> /\ ~HasError(r.msg[1]))]
            /\ announced' = [announced EXCEPT ![c] =
                   @ \/ (IsNotification(m) /\ m.method = "initialized")]
    /\ UNCHANGED <<phase, cur, library>>

\* handleConnection: "if response != nil { s.sendMessage(conn, response) }";
\* a failed write leaves the loop
Send(c) ==
    /\ pc[c] = "send"
    /\ IF resp[c] = << >>
       THEN /\ pc' = [pc EXCEPT ![c] = "read"]
            /\ UNCHANGED <<cur, resp, sent, invoked>>
       ELSE \E written \in BOOLEAN :
              IF written
              THEN /\ sent' = [sent EXCEPT ![c] = resp[c]]
                   /\ pc' = [pc EXCEPT ![c] = "read"]
                   /\ UNCHANGED <<cur, resp, invoked>>
              ELSE /\ pc' = [pc EXCEPT ![c] = "closed"]
                   /\ cur' = [cur EXCEPT ![c] = NoFrame]
                   /\ resp' = [resp EXCEPT ![c] = << >>]
                   /\ sent' = [sent EXCEPT ![c] = << >>]
                   /\ invoked' = [invoked EXCEPT ![c] = << >>]
    /\ UNCHANGED <<phase, h, history, library>>

\* one client connects and may deliver any frame
Clients == {"A"}

Next ==
    \/ DoRegisterTool
    \/ DoRegisterResource
    \/ DoRegisterPrompt
    \/ Start
    \/ \E c \in Clients : ReadFails(c)
    \/ \E c \in Clients : ReadMessage(c, Frames)
    \/ \E c \in Clients : Handle(c)
    \/ \E c \in Clients : Send(c)

Spec == Init /\ [][Next]_vars

\* ---------------------------------------------------------------------
\* Two clients connected to the started server, each delivering the
\* frames of the handshake and of the gated operations.
\* ---------------------------------------------------------------------
SharedFrames ==
    {TextFrame(m) : m \in
        {NewNotification("initialized", Nil),
         NewRequest(Str(<< "1" >>), "initialize", ParamsObject(MCPVersion, "", "", "absent")),
         NewRequest(Str(<< "1" >>), "tools/call", ParamsObject("", "calculator", "", "map")),
         NewRequest(Str(<< "1" >>), "resources/read", ParamsObject("", "", "file:///notes", "absent")),
         NewRequest(Str(<< "1" >>), "prompts/get", ParamsObject("", "greeting", "", "absent"))}}

\* the handler after main registered one collaborator of each kind
Registered ==
    RegisterPrompt(
        RegisterResource(
            RegisterTool(NewBaseHandler(ServerInfo, ServerCapabilities),
                         "calculatorTool").h,
            "notesResource").h,
        "greetingPrompt").h

InitShared ==
    /\ phase = "serving"
    /\ h = Registered
    /\ pc = [c \in Conns |-> "read"]
    /\ cur = [c \in Conns |-> NoFrame]
    /\ resp = [c \in Conns |-> << >>]
    /\ sent = [c \in Conns |-> << >>]
    /\ invoked = [c \in Conns |-> << >>]
    /\ handshook = [c \in Conns |-> FALSE]
    /\ announced = [c \in Conns |-> FALSE]
    /\ NoLibraryCall

NextShared ==
    \/ \E c \in Conns : ReadFails(c)
    \/ \E c \in Conns : ReadMessage(c, SharedFrames)
    \/ \E c \in Conns : Handle(c)
    \/ \E c \in Conns : Send(c)

SpecShared == InitShared /\ [][NextShared]_vars

\* ---------------------------------------------------------------------
\* The schema validator called on its own: any schema with any argument
\* map, one call of ValidateToolSchema or of ValidateToolParameters.
\* ---------------------------------------------------------------------
server == <<phase, h, conn, history>>

\* no server is running
NoServer ==
    /\ phase = "setup"
    /\ h = NewBaseHandler(ServerInfo, ServerCapabilities)
    /\ pc = [c \in Conns |-> "read"]
    /\ cur = [c \in Conns |-> NoFrame]
    /\ resp = [c \in Conns |-> << >>]
    /\ sent = [c \in Conns |-> << >>]
    /\ invoked = [c \in Conns |-> << >>]
    /\ handshook = [c \in Conns |-> FALSE]
    /\ announced = [c \in Conns |-> FALSE]

InitValidate ==
    /\ NoServer
    /\ SearchToolIdle
    /\ RegistryIdle
    /\ SharedRegistryIdle
    /\ SanitizerIdle
    /\ CodecIdle
    /\ \E schema \in Schemas, params \in ArgumentMaps :
         val = [schema |-> schema, params |-> params, op |-> "none", err |-> NoText]

DoValidateToolSchema ==
    /\ val.op = "none"
    /\ \E err \in ValidateToolSchema(val.schema) :
         val' = [val EXCEPT !.op = "ValidateToolSchema", !.err = err]
    /\ UNCHANGED <<server, reg, rw, san, rt, ws>>

DoValidateToolParameters ==
    /\ val.op = "none"
    /\ \E err \in ValidateToolParameters(val.params, val.schema) :
         val' = [val EXCEPT !.op = "ValidateToolParameters", !.err = err]
    /\ UNCHANGED <<server, reg, rw, san, rt, ws>>

NextValidate ==
    \/ DoValidateToolSchema
    \/ DoValidateToolParameters

SpecValidate == InitValidate /\ [][NextValidate]_vars

\* ---------------------------------------------------------------------
\* The schema validator called on the schemas the bundled tools declare,
\* with the argument sets their descriptions ask for.
\* ---------------------------------------------------------------------
BundledTools == {"calculatorTool", "powerCalculatorTool", "webSearchTool"}

\* calls of a calculator: an operation and two numbers
CalculatorArguments ==
    {Map(("operation" :> Word(op)) @@ ("a" :> Float64(a)) @@ ("b" :> Float64(b))) :
        op \in {"add", "subtract", "multiply", "divide", "power"},
        a \in {2, 3}, b \in {0, 4}}

\* calls of the web search: a query of 1 to 500 characters, alone or
\* with an engine of the enum or a number of results between 1 and 50
WebSearchArguments ==
    {Map("query" :> Str(q)) : q \in {<< "a" >>, << "g", "o" >>}}
    \cup {Map(("query" :> Str(q)) @@ ("engine" :> Word(e))) :
            q \in {<< "a" >>, << "g", "o" >>}, e \in {"auto", "duckduckgo", "searxng"}}
    \cup {Map(("query" :> Str(q)) @@ ("max_results" :> Float64(n))) :
            q \in {<< "a" >>, << "g", "o" >>}, n \in {2, 20, 100}}

\* the argument sets that conform to the schema of the tool
ConformingArguments(handler) ==
    IF handler = "webSearchTool" THEN WebSearchArguments
    ELSE {params \in CalculatorArguments :
            \E i \in 1..Len(InputSchema(handler).Properties.m["operation"].m["enum"].e) :
                InputSchema(handler).Properties.m["operation"].m["enum"].e[i]
                    = params.m["operation"]}

InitBundled ==
    /\ NoServer
    /\ SearchToolIdle
    /\ RegistryIdle
    /\ SharedRegistryIdle
    /\ SanitizerIdle
    /\ CodecIdle
    /\ \E handler \in BundledTools :
         \E params \in CalculatorArguments \cup WebSearchArguments :
            val = [schema |-> InputSchema(handler), params |-> params, op |-> "none",
                   err |-> NoText]

SpecBundled == InitBundled /\ [][NextValidate]_vars

\* ---------------------------------------------------------------------
\* A registry used by one caller: any sequence of calls, with at most
\* MaxWrites writes that succeed.
\* ---------------------------------------------------------------------
MaxWrites == 3

\* a write that succeeded, as the log keeps it
Written(op, name, handler) == [op |-> op, name |-> name, handler |-> handler]

InitRegistry ==
    /\ NoServer
    /\ SearchToolIdle
    /\ ValidatorIdle
    /\ SharedRegistryIdle
    /\ SanitizerIdle
    /\ CodecIdle
    /\ reg = NoRegistry

\* a writing call: the registry after it, the log entry if it succeeded
Write(r, entry, call) ==
    /\ Len(reg.log) < MaxWrites
    /\ reg' = [r |-> r,
               log |-> IF call.err = NoText THEN Append(reg.log, entry) ELSE reg.log,
               last |-> call]
    /\ UNCHANGED <<server, val, rw, san, rt, ws>>

\* a reading call
Query(call) ==
    /\ reg' = [reg EXCEPT !.last = call]
    /\ UNCHANGED <<server, val, rw, san, rt, ws>>

DoRegister ==
    \E handler \in RegistryHandlers :
        LET out == Register(reg.r, handler)
        IN Write(out.r,
                 Written("Register",
                         IF Defined(handler) THEN DefinitionName(handler) ELSE "",
                         handler),
                 RegistryCall("Register", handler, out.err, "", 0, FALSE))

DoUnregister ==
    \E name \in RegistryNames :
        LET out == Unregister(reg.r, name)
        IN Write(out.r, Written("Unregister", name, ""),
                 RegistryCall("Unregister", name, out.err, "", 0, FALSE))

DoClear ==
    Write(Clear(reg.r), Written("Clear", "", ""),
          RegistryCall("Clear", "", NoText, "", 0, FALSE))

DoGet ==
    \E name \in RegistryNames :
        LET out == Get(reg.r, name)
        IN Query(RegistryCall("Get", name, out.err, out.handler, 0, FALSE))

DoList == Query(RegistryCall("List", "", NoText, "", Len(List(reg.r)), FALSE))

DoCount == Query(RegistryCall("Count", "", NoText, "", Count(reg.r), FALSE))

DoGetToolNames ==
    Query(RegistryCall("GetToolNames", "", NoText, "", Len(GetToolNames(reg.r)), FALSE))

DoHasTool ==
    \E name \in RegistryNames :
        Query(RegistryCall("HasTool", name, NoText, "", 0, HasTool(reg.r, name)))

NextRegistry ==
    \/ DoRegister
    \/ DoUnregister
    \/ DoClear
    \/ DoGet
    \/ DoList
    \/ DoCount
    \/ DoGetToolNames
    \/ DoHasTool

SpecRegistry == InitRegistry /\ [][NextRegistry]_vars

\* ---------------------------------------------------------------------
\* A registry used by two goroutines at once. A call is the steps of the
\* method: take the lock, test or read the map, write it or form the
\* result, release the lock on return.
\* ---------------------------------------------------------------------

\* the calls the goroutines make
SharedCalls ==
    {<< "Register", "calculatorTool" >>, << "Register", "powerCalculatorTool" >>,
     << "Unregister", "calculator" >>, << "Clear", "" >>,
     << "Get", "calculator" >>, << "HasTool", "calculator" >>,
     << "List", "" >>, << "Count", "" >>, << "GetToolNames", "" >>}

Writers == {"Register", "Unregister", "Clear"}

\* faulty variant: every method takes the read lock
LockTaken_AllShared(op) == "RLock"

\* the lock the method takes: r.mutex.Lock() or r.mutex.RLock()
LockTaken(op) == IF op \in Writers THEN "Lock" ELSE "RLock"

\* sync.RWMutex: Lock waits for the writer and for every reader, RLock
\* waits for the writer
CanLock(mutex) == mutex.writer = "" /\ mutex.readers = {}

CanRLock(mutex) == mutex.writer = ""

\* both goroutines have called Register for one name the map does not
\* hold, and neither has the lock yet
Racing(callers, tools) ==
    /\ \A g \in Callers : callers[g].at = "wait" /\ callers[g].op = "Register"
    /\ \A g, k \in Callers : DefinitionName(callers[g].arg) = DefinitionName(callers[k].arg)
    /\ \A g \in Callers : DefinitionName(callers[g].arg) \notin DOMAIN tools

InitShare ==
    /\ NoServer
    /\ SearchToolIdle
    /\ ValidatorIdle
    /\ RegistryIdle
    /\ SanitizerIdle
    /\ CodecIdle
    /\ rw = NoCallers

\* a step of goroutine g that takes it to caller record c
Proceed(g, c, tools, mutex) ==
    /\ rw' = [tools |-> tools,
              mutex |-> mutex,
              callers |-> [rw.callers EXCEPT ![g] = c],
              raced |-> IF c.at = "wait"
                        THEN Racing([rw.callers EXCEPT ![g] = c], tools)
                        ELSE rw.raced]
    /\ UNCHANGED <<server, val, reg, san, rt, ws>>

\* g calls a method
Invoke(g) ==
    /\ rw.callers[g].at = "idle"
    /\ \E call \in SharedCalls :
         Proceed(g, Caller("wait", call[1], call[2], FALSE, EmptyTable, NoText),
                 rw.tools, rw.mutex)

\* r.mutex.Lock() / r.mutex.RLock() returns
Acquire(g) ==
    LET c == rw.callers[g]
    IN /\ c.at = "wait"
       /\ IF LockTaken(c.op) = "Lock"
          THEN /\ CanLock(rw.mutex)
               /\ Proceed(g, [c EXCEPT !.at = "held"], rw.tools,
                          RWMutex(g, rw.mutex.readers))
          ELSE /\ CanRLock(rw.mutex)
               /\ Proceed(g, [c EXCEPT !.at = "held"], rw.tools,
                          RWMutex(rw.mutex.writer, rw.mutex.readers \cup {g}))

\* the test "_, exists := r.tools[name]" of a writer, the first read of
\* the map of a reader
Examine(g) ==
    LET c == rw.callers[g]
        name == IF c.op = "Register" THEN DefinitionName(c.arg) ELSE c.arg
    IN /\ c.at = "held"
       /\ Proceed(g, [c EXCEPT !.at = "checked",
                               !.exists = (name \in DOMAIN rw.tools),
                               !.seen = rw.tools],
                  rw.tools, rw.mutex)

\* the rest of the method: the write of a writer that passed its test,
\* the result of a reader (the handlers of SharedCalls have a definition
\* and a name, so Register's two first tests pass)
Complete(g) ==
    LET c == rw.callers[g]
        done(err) == [c EXCEPT !.at = "done", !.err = err]
    IN /\ c.at = "checked"
       /\ CASE c.op = "Register" ->
                 IF c.exists
                 THEN Proceed(g, done(<< "tool '", DefinitionName(c.arg),
                                         "' is already registered" >>),
                              rw.tools, rw.mutex)
                 ELSE Proceed(g, done(NoText),
                              Put(rw.tools, DefinitionName(c.arg), c.arg), rw.mutex)
            [] c.op = "Unregister" ->
                 IF ~c.exists
                 THEN Proceed(g, done(<< "tool '", c.arg, "' is not registered" >>),
                              rw.tools, rw.mutex)
                 ELSE Proceed(g, done(NoText), Delete(rw.tools, c.arg), rw.mutex)
            [] c.op = "Clear" ->
                 Proceed(g, done(NoText), EmptyTable, rw.mutex)
            [] c.op = "Get" ->
                 Proceed(g, done(Get([tools |-> rw.tools], c.arg).err), rw.tools, rw.mutex)
            [] OTHER ->
                 Proceed(g, done(NoText), rw.tools, rw.mutex)

\* the deferred r.mutex.Unlock() / r.mutex.RUnlock() and the return
Release(g) ==
    LET c == rw.callers[g]
    IN /\ c.at = "done"
       /\ Proceed(g, [c EXCEPT !.at = "idle"], rw.tools,
                  IF LockTaken(c.op) = "Lock"
                  THEN RWMutex("", rw.mutex.readers)
                  ELSE RWMutex(rw.mutex.writer, rw.mutex.readers \ {g}))

NextShare ==
    \/ \E g \in Callers : Invoke(g)
    \/ \E g \in Callers : Acquire(g)
    \/ \E g \in Callers : Examine(g)
    \/ \E g \in Callers : Complete(g)
    \/ \E g \in Callers : Release(g)

SpecShare == InitShare /\ [][NextShare]_vars

\* ---------------------------------------------------------------------
\* The sanitizer called on its own, once, on any argument map.
\* ---------------------------------------------------------------------
InitSanitize ==
    /\ NoServer
    /\ SearchToolIdle
    /\ ValidatorIdle
    /\ RegistryIdle
    /\ SharedRegistryIdle
    /\ CodecIdle
    /\ \E params \in ArgumentTrees :
         san = [given |-> params, params |-> params, returned |-> FALSE,
                result |-> NilMap]

\* SanitizeParameters builds new maps and slices and assigns to nothing
\* of its argument
DoSanitizeParameters ==
    /\ ~san.returned
    /\ san' = [san EXCEPT !.returned = TRUE, !.result = SanitizeParameters(san.params)]
    /\ UNCHANGED <<server, val, reg, rw, rt, ws>>

NextSanitize == DoSanitizeParameters

SpecSanitize == InitSanitize /\ [][NextSanitize]_vars

\* ---------------------------------------------------------------------
\* A message built by a constructor, encoded as sendMessage does and
\* decoded as handleConnection does.
\* ---------------------------------------------------------------------
\* the ids given to the constructors: strings, the empty one included,
\* Go integers, float64s, and none
ConstructorIDs ==
    {NilValue, Str(<< "1" >>), Str(<< >>), GoInt(7), GoInt(0), Float64(4), Float64(3)}

\* the messages built by the four constructors
Constructed ==
    {NewRequest(id, method, params) :
        id \in ConstructorIDs, method \in {"", "tools/list", "tools/call"},
        params \in {Nil, ParamsObject("", "calculator", "", "map")}}
    \cup {NewNotification(method, Nil) : method \in {"", "initialized"}}
    \cup {NewSuccessResponse(id, result) :
            id \in ConstructorIDs, result \in {Nil, [kind |-> "list", tools |-> {}]}}
    \cup {NewErrorResponse(id, code, << "Invalid JSON" >>, data) :
            id \in ConstructorIDs, code \in {ParseError, InternalError},
            data \in {NoText, << "invalid character" >>}}

InitCodec ==
    /\ NoServer
    /\ SearchToolIdle
    /\ ValidatorIdle
    /\ RegistryIdle
    /\ SharedRegistryIdle
    /\ SanitizerIdle
    /\ \E m \in Constructed :
         rt = [stage |-> "built", built |-> m, wire |-> EmptyMap,
               decoded |-> NewNotification("", Nil)]

\* json.Marshal(message)
Marshal ==
    /\ rt.stage = "built"
    /\ rt' = [rt EXCEPT !.stage = "encoded", !.wire = Encode(rt.built)]
    /\ UNCHANGED <<server, val, reg, rw, san, ws>>

\* json.Unmarshal(data, &message)
Unmarshal ==
    /\ rt.stage = "encoded"
    /\ rt' = [rt EXCEPT !.stage = "decoded", !.decoded = Decode(rt.wire)]
    /\ UNCHANGED <<server, val, reg, rw, san, ws>>

NextCodec ==
    \/ Marshal
    \/ Unmarshal

SpecCodec == InitCodec /\ [][NextCodec]_vars

\* ---------------------------------------------------------------------
\* HandleMessage called by a user of the package rather than by the
\* connection loop: any message, a nil one included, on a handler with or
\* without registered collaborators. The call is kept in the variables
\* of connection "A".
\* ---------------------------------------------------------------------
Direct == "A"

\* the *Message arguments of a direct call
Arguments_HandleMessage == Inbound \cup {Nil}

\* a call as `cur` keeps it
DirectCall(m) == [type |-> "call", json |-> TRUE, msg |-> m]

InitDispatch ==
    /\ phase = "setup"
    /\ h \in {NewBaseHandler(ServerInfo, ServerCapabilities), Registered}
    /\ pc = [c \in Conns |-> "read"]
    /\ cur = [c \in Conns |-> NoFrame]
    /\ resp = [c \in Conns |-> << >>]
    /\ sent = [c \in Conns |-> << >>]
    /\ invoked = [c \in Conns |-> << >>]
    /\ handshook = [c \in Conns |-> FALSE]
    /\ announced = [c \in Conns |-> FALSE]
    /\ NoLibraryCall

\* h.HandleMessage(ctx, message)
DoHandleMessage ==
    \E m \in Arguments_HandleMessage, outcome \in ToolOutcomes :
        LET r == HandleMessage(h, m, outcome)
        IN /\ h' = r.h
           /\ cur' = [cur EXCEPT ![Direct] = DirectCall(m)]
           /\ resp' = [resp EXCEPT ![Direct] = r.msg]
           /\ invoked' = [invoked EXCEPT ![Direct] = r.invoked]
           /\ UNCHANGED <<phase, pc, sent, history, library>>

NextDispatch == DoHandleMessage

SpecDispatch == InitDispatch /\ [][NextDispatch]_vars

\* ---------------------------------------------------------------------
\* One web search tool, called through Execute or, as its tests do,
\* through searchWithRetry; one call after the other.
\* ---------------------------------------------------------------------
\* searchWithRetry up to its loop: the availability test and the rate
\* limit, which sleeps when the engine's last request is recent (soon)
Enter(w, engineName, soon) ==
    LET call == [w EXCEPT !.engineName = engineName, !.attempt = 0, !.attempts = 0,
                          !.waits = 0, !.recorded = 0, !.outcomes = << >>,
                          !.results = "nil", !.errors = << >>, !.throttled = FALSE]
    IN IF ~Available(engineName)
       THEN [call EXCEPT !.at = "returned", !.engine = "",
                         !.errors = << [attempt |-> 0, engine |-> engineName] >>]
       ELSE [call EXCEPT !.at = "search",
                         !.throttled = soon /\ engineName \in w.lastRequest]

\* faulty variant: the loop goes on after results were found
Attempt_NoEarlyReturn(w, outcome) ==
    LET config == Engines[w.engineName]
        tried == [w EXCEPT !.attempts = @ + 1,
                           !.recorded = @ + 1,
                           !.lastRequest = @ \cup {w.engineName},
                           !.outcomes = Append(@, outcome),
                           !.results = ResultsOf(outcome)]
    IN IF w.attempt < config.MaxRetries
       THEN [tried EXCEPT !.at = "wait"]
       ELSE [tried EXCEPT !.at = "returned", !.engine = config.Name]

\* searchWithRetry, one iteration of the loop up to the wait: the search,
\* the recording of the time, the return on results, the error kept
Attempt(w, outcome) ==
    LET config == Engines[w.engineName]
        tried == [w EXCEPT !.attempts = @ + 1,
                           !.recorded = @ + 1,
                           !.lastRequest = @ \cup {w.engineName},
                           !.outcomes = Append(@, outcome),
                           !.results = ResultsOf(outcome)]
        kept == IF outcome = "error"
                THEN [tried EXCEPT !.errors =
                         Append(@, [attempt |-> w.attempt + 1, engine |-> config.Name])]
                ELSE tried
    IN IF outcome = "some"
       THEN [kept EXCEPT !.at = "returned", !.engine = config.Name]
       ELSE IF w.attempt < config.MaxRetries
       THEN [kept EXCEPT !.at = "wait"]
       ELSE [kept EXCEPT !.at = "returned", !.engine = config.Name]

\* Execute, after its switch: the failure for no results, or the result
Finish(w) ==
    IF w.results # "some"
    THEN [w EXCEPT !.at = "done", !.isError = TRUE,
                   !.text = << "Search failed for query" >>]
    ELSE [w EXCEPT !.at = "done", !.isError = FALSE, !.text = << "Web Search Results" >>]

\* Execute, case "auto", after the loop over engineOrder: the simulated
\* results when the engines gave none
Fallback(w) ==
    IF w.results = "some" THEN Finish(w)
    ELSE IF simulateSearch(TrimSpace(QueryOf(w.params)), MaxResultsOf(w.params)) > 0
    THEN Finish([w EXCEPT !.results = "some", !.engine = "Simulated Results"])
    ELSE Finish([w EXCEPT !.searchErrors = @ + 1])

\* Execute, case "auto": the loop over engineOrder from position w.next
TryEngines(w, soon) ==
    LET enabled == {i \in w.next..Len(engineOrder) : Engines[engineOrder[i]].Enabled}
        first == CHOOSE i \in enabled : \A j \in enabled : i <= j
    IN IF enabled = {} THEN Fallback(w)
       ELSE Enter([w EXCEPT !.next = first + 1], engineOrder[first], soon)

\* Execute up to the first search
Execute(w, params, soon) ==
    LET call == [w EXCEPT !.caller = "Execute", !.params = params, !.next = 1,
                          !.searchErrors = 0, !.isError = FALSE, !.text = NoText,
                          !.results = "nil", !.engine = ""]
    IN IF QueryRefused(params) # NoText
       THEN [call EXCEPT !.at = "done", !.isError = TRUE, !.text = QueryRefused(params)]
       ELSE IF EngineOf(params) \in {"duckduckgo", "searxng", "brave"}
       THEN Enter([call EXCEPT !.mode = "single"], EngineOf(params), soon)
       ELSE IF EngineOf(params) = "auto"
       THEN TryEngines([call EXCEPT !.mode = "auto"], soon)
       ELSE [call EXCEPT !.at = "done", !.isError = TRUE,
                         !.text = << "Error: unsupported search engine '",
                                     EngineOf(params), "'" >>]

InitSearch ==
    /\ NoServer
    /\ ValidatorIdle
    /\ RegistryIdle
    /\ SharedRegistryIdle
    /\ SanitizerIdle
    /\ CodecIdle
    /\ ws = NoSearch

\* a test calls search.searchWithRetry(engineName, ...)
CallSearchWithRetry ==
    /\ ws.at = "idle"
    /\ \E engineName \in EngineNames, soon \in BOOLEAN :
         ws' = Enter([ws EXCEPT !.caller = "test"], engineName, soon)
    /\ UNCHANGED <<server, val, reg, rw, san, rt>>

\* the dispatcher calls tool.Execute(ctx, params)
CallExecute ==
    /\ ws.at = "idle"
    /\ \E params \in SearchParams, soon \in BOOLEAN : ws' = Execute(ws, params, soon)
    /\ UNCHANGED <<server, val, reg, rw, san, rt>>

\* searchWithRetry: one attempt
Search ==
    /\ ws.at = "search"
    /\ \E outcome \in SearchOutcomes(ws.engineName) : ws' = Attempt(ws, outcome)
    /\ UNCHANGED <<server, val, reg, rw, san, rt>>

\* searchWithRetry: time.Sleep(waitTime), then the next iteration
Wait ==
    /\ ws.at = "wait"
    /\ ws' = [ws EXCEPT !.at = "search", !.waits = @ + 1, !.attempt = @ + 1]
    /\ UNCHANGED <<server, val, reg, rw, san, rt>>

\* searchWithRetry has returned to Execute
Resume ==
    /\ ws.at = "returned"
    /\ ws.caller = "Execute"
    /\ \E soon \in BOOLEAN :
         LET w == [ws EXCEPT !.searchErrors = @ + Len(ws.errors)]
         IN ws' = IF w.mode = "single" THEN Finish(w)
                  ELSE IF w.results = "some" THEN Fallback(w)
                  ELSE TryEngines(w, soon)
    /\ UNCHANGED <<server, val, reg, rw, san, rt>>

\* the call is over; the tool stays, with its lastRequest
Reset ==
    /\ \/ ws.at = "done"
       \/ ws.at = "returned" /\ ws.caller = "test"
    /\ ws' = SearchIdle(ws.lastRequest)
    /\ UNCHANGED <<server, val, reg, rw, san, rt>>

NextSearch ==
    \/ CallSearchWithRetry
    \/ CallExecute
    \/ Search
    \/ Wait
    \/ Resume
    \/ Reset

SpecSearch == InitSearch /\ [][NextSearch]_vars

\* ---------------------------------------------------------------------
\* Properties of the dispatcher and the connection loop
\* ---------------------------------------------------------------------

\* the params of m decode into the shape without error
Decodes(m, shape) == UnmarshalParams(m, shape) = NoText

\* r is one error response whose error data reports the condition
ErrorReporting(r, text) ==
    Len(r) = 1 /\ HasError(r[1]) /\ Contains(r[1].error.data, text)

\* r is one error response with the code
ErrorWithCode(r, code) == Len(r) = 1 /\ HasError(r[1]) /\ r[1].error.code = code

\* r is one success response
Success(r) == Len(r) = 1 /\ ~HasError(r[1]) /\ r[1].result # Nil

\* connection c holds a decoded message
Decoded(c) == cur[c].type = "text" /\ cur[c].json

\* HandleMessage has returned for the message of c and the loop is about
\* to send what it returned
Answered(c) == pc[c] = "send" /\ Decoded(c)

\* the loop iteration for the message of c is over
Finished(c) == pc[c] = "read" /\ Decoded(c)

\* this step is HandleMessage returning on c
HandleStep(c) == pc[c] = "handle" /\ pc'[c] = "send"

\* m is a tools/call request with decodable params naming a registered tool
ToolCall(m) ==
    /\ IsRequest(m)
    /\ m.method = "tools/call"
    /\ Decodes(m, "CallToolParams")
    /\ m.params.name \in DOMAIN h.tools

\* m is a call/read/get request with decodable params
GatedOp(m) ==
    /\ IsRequest(m)
    /\ \/ m.method = "tools/call" /\ Decodes(m, "CallToolParams")
       \/ m.method = "resources/read" /\ Decodes(m, "ReadResourceParams")
       \/ m.method = "prompts/get" /\ Decodes(m, "GetPromptParams")

\* C1: a tools/call request with decodable params naming a registered
\* tool, handled before any `initialized` notification was handled, is
\* answered with an error response reporting "handler not initialized"
\* and the tool is not invoked; handled after one, it is answered with a
\* success response.
C1_ReadyGating ==
    [][\A c \in Conns :
         (HandleStep(c) /\ ToolCall(cur[c].msg)) =>
            IF \E d \in Conns : announced[d]
            THEN Success(resp'[c])
            ELSE ErrorReporting(resp'[c], "handler not initialized")
                 /\ invoked'[c] = << >>]_vars

C1_Witness ==
    \E c \in Conns :
        /\ Answered(c)
        /\ ToolCall(cur[c].msg)
        /\ announced[c]
        /\ Success(resp[c])
        /\ invoked[c] # << >>

\* C2 (as claimed): a call/read/get request on a connection that has not
\* itself sent `initialized` is answered as not initialized, whatever the
\* other connections have sent.
C2_PerConnectionState ==
    \A c \in Conns :
        (Answered(c) /\ GatedOp(cur[c].msg) /\ ~announced[c]) =>
            ErrorReporting(resp[c], "handler not initialized")

\* C3: the initialized flag is false at creation, turns true only in the
\* handling of an `initialized` notification, and never turns false.
C3_InitializedMonotone ==
    /\ ~h.initialized
    /\ [][/\ h.initialized => h'.initialized
          /\ (~h.initialized /\ h'.initialized) =>
                \E c \in Conns :
                    /\ HandleStep(c)
                    /\ IsNotification(cur[c].msg)
                    /\ cur[c].msg.method = "initialized"]_vars

C3_Witness ==
    \E c \in Conns :
        /\ Answered(c)
        /\ h.initialized
        /\ cur[c].msg.method \in {"initialize", "notifications/cancelled", ""}

\* C4 (as claimed): an `initialized` notification handled in a session
\* with no earlier successful `initialize` does not make the session
\* Ready.
C4_HandshakeOrdered ==
    \A c \in Conns :
        (/\ Answered(c)
         /\ IsNotification(cur[c].msg)
         /\ cur[c].msg.method = "initialized"
         /\ ~handshook[c]) => ~h.initialized

\* C5: for a message with a method and no id, HandleMessage returns no
\* message and the connection loop writes nothing.
C5_NotificationsSilent ==
    \A c \in Conns :
        (Decoded(c) /\ IsNotification(cur[c].msg)) =>
            resp[c] = << >> /\ sent[c] = << >>

C5_Witness ==
    \E c \in Conns :
        /\ Finished(c)
        /\ IsNotification(cur[c].msg)
        /\ cur[c].msg.method \notin {"initialized", "notifications/cancelled"}

\* C6: for a request, HandleMessage returns exactly one message, a
\* response carrying the request's identifier, whatever the method and
\* the outcome; the loop writes that one message and no other.
C6_OneResponsePerRequest ==
    \A c \in Conns :
        (Decoded(c) /\ IsRequest(cur[c].msg)) =>
            /\ Answered(c) =>
                  /\ Len(resp[c]) = 1
                  /\ resp[c][1].id = cur[c].msg.id
                  /\ resp[c][1].method = ""
                  /\ sent[c] = << >>
            /\ Finished(c) =>
                  /\ Len(sent[c]) = 1
                  /\ sent[c] = resp[c]
                  /\ sent[c][1].id = cur[c].msg.id

C6_Witness ==
    \E c \in Conns :
        /\ Finished(c)
        /\ IsRequest(cur[c].msg)
        /\ cur[c].msg.id = Float64(4)
        /\ HasError(sent[c][1])

\* the table a call/read/get looks its name up in, and the name
LookedUp(m) ==
    CASE m.method = "tools/call" -> [table |-> h.tools, key |-> m.params.name]
      [] m.method = "resources/read" -> [table |-> h.resources, key |-> m.params.uri]
      [] m.method = "prompts/get" -> [table |-> h.prompts, key |-> m.params.name]

\* the not-found code of the capability a call/read/get addresses
NotFoundCode(m) ==
    CASE m.method = "tools/call" -> ToolNotFound
      [] m.method = "resources/read" -> ResourceNotFound
      [] m.method = "prompts/get" -> PromptNotFound

\* C7 (as claimed): in Ready state a call/read/get for a name that is
\* not registered is answered with the not-found code of its capability:
\* ToolNotFound, ResourceNotFound, PromptNotFound.
C7_NotFoundCodes ==
    \A c \in Conns :
        (/\ Answered(c)
         /\ GatedOp(cur[c].msg)
         /\ h.initialized
         /\ LookedUp(cur[c].msg).key \notin DOMAIN LookedUp(cur[c].msg).table) =>
            ErrorWithCode(resp[c], NotFoundCode(cur[c].msg))

\* the methods handleRequest knows
MethodSurface == {"initialize", "tools/list", "tools/call", "resources/list",
                  "resources/read", "prompts/list", "prompts/get"}

\* C8: a request whose method is outside the method surface is answered
\* with MethodNotFound and a message text containing the method name, in
\* every session state.
C8_MethodNotFound ==
    \A c \in Conns :
        (/\ Answered(c)
         /\ IsRequest(cur[c].msg)
         /\ cur[c].msg.method \notin MethodSurface) =>
            /\ ErrorWithCode(resp[c], MethodNotFound)
            /\ Contains(resp[c][1].error.message, cur[c].msg.method)

C8_Witness ==
    \E c \in Conns :
        /\ Answered(c)
        /\ IsRequest(cur[c].msg)
        /\ cur[c].msg.method = "tools/unknown"
        /\ h.initialized

\* m is an initialize request with decodable params
InitializeCall(m) ==
    IsRequest(m) /\ m.method = "initialize" /\ Decodes(m, "InitializeParams")

C10_ToolFailuresAreData ==
    \A c \in Conns :
        (Answered(c) /\ ToolCall(cur[c].msg) /\ h.initialized) =>
            /\ Success(resp[c])
            /\ Len(invoked[c]) = 1
            /\ invoked[c][1].handler = h.tools[cur[c].msg.params.name]
            /\ IF invoked[c][1].returned = "fault"
               THEN /\ resp[c][1].result.isError
                    /\ Contains(resp[c][1].result.content[1].text, FaultText)
               ELSE resp[c][1].result =
                        ToolResult(invoked[c][1].handler, invoked[c][1].returned)

C10_Witness ==
    \E c \in Conns :
        /\ Answered(c)
        /\ ToolCall(cur[c].msg)
        /\ h.initialized
        /\ invoked[c] # << >>
        /\ invoked[c][1].returned = "fault"

\* ---------------------------------------------------------------------
\* Properties of the schema validator
\* ---------------------------------------------------------------------

\* the call of the validator has returned
Validated(op) == val.op = op

\* this step is the call op of the validator
ValidateStep(op) == val.op = "none" /\ val'.op = op

\* the property definition declares none of the six kinds
NoRecognizedKind(property) ==
    \/ property.t # "map[string]interface {}"
    \/ ~Exists(property, "type")
    \/ property.m["type"].t # "string"
    \/ \A valid \in validTypes : property.m["type"].s # << valid >>

\* the property definition is of the kind
OfKind(property, kind) ==
    ~NoRecognizedKind(property) /\ property.m["type"].s = << kind >>

\* a numeric property whose minimum is above its maximum
MinimumAboveMaximum(property) ==
    /\ OfKind(property, "number") \/ OfKind(property, "integer")
    /\ Exists(property, "minimum") /\ property.m["minimum"].t = "float64"
    /\ Exists(property, "maximum") /\ property.m["maximum"].t = "float64"
    /\ property.m["minimum"].n > property.m["maximum"].n

\* the schema has one of the defects of a schema that is not well-formed
Defective(schema) ==
    \/ schema.Type # "object"
    \/ schema.Properties.t = "nil map"
    \/ DOMAIN schema.Properties.m = {}
    \/ \E i \in 1..Len(schema.Required) : ~Exists(schema.Properties, schema.Required[i])
    \/ \E p \in DOMAIN schema.Properties.m :
          \/ NoRecognizedKind(schema.Properties.m[p])
          \/ MinimumAboveMaximum(schema.Properties.m[p])

\* C16: ValidateToolSchema returns an error for every schema whose type
\* is missing or not "object", whose property map is nil or empty, that
\* requires a name it does not declare, that has a property without a
\* recognized kind, or a numeric property with minimum > maximum; and the
\* call changes neither its inputs nor anything else.
C16_SchemaValidation ==
    /\ []((Validated("ValidateToolSchema") /\ Defective(val.schema)) => val.err # NoText)
    /\ [][ValidateStep("ValidateToolSchema") =>
            /\ val'.schema = val.schema
            /\ val'.params = val.params
            /\ UNCHANGED server]_vars

C16_Witness ==
    /\ Validated("ValidateToolSchema")
    /\ \E p \in DOMAIN val.schema.Properties.m :
          MinimumAboveMaximum(val.schema.Properties.m[p])
    /\ Contains(val.err, ") cannot be greater than maximum (")

\* the schema passes ValidateToolSchema
WellFormed(schema) == ValidateToolSchema(schema) = {NoText}

\* the names the argument map gives
Given(params) == DOMAIN params.m

\* the required names the argument map does not give
MissingRequired(params, schema) ==
    {schema.Required[i] : i \in 1..Len(schema.Required)} \ Given(params)

\* the names the argument map gives and the schema does not declare
Undeclared(params, schema) == Given(params) \ DOMAIN schema.Properties.m

\* the first required name, in the order of schema.Required, that is missing
FirstMissing(params, schema) ==
    LET i == CHOOSE i \in 1..Len(schema.Required) :
                /\ schema.Required[i] \notin Given(params)
                /\ \A j \in 1..(i - 1) : schema.Required[j] \in Given(params)
    IN schema.Required[i]

\* every given argument the schema declares passes the check of its value
DeclaredValuesPass(params, schema) ==
    \A p \in Given(params) \cap DOMAIN schema.Properties.m :
        validateParameterValue(p, params.m[p], schema.Properties.m[p]) = NoText

\* the call returned an error that names the parameter
ErrorNaming(err, name) == err # NoText /\ ~Panics(err) /\ Contains(err, name)

\* C17 (as claimed): for a well-formed schema the error of
\* ValidateToolParameters names every required name that is missing and
\* every given name that is not declared.
C17_NamesEveryViolation ==
    (Validated("ValidateToolParameters") /\ WellFormed(val.schema)) =>
        /\ \A name \in MissingRequired(val.params, val.schema) :
              ErrorNaming(val.err, name)
        /\ \A name \in Undeclared(val.params, val.schema) :
              ErrorNaming(val.err, name)

\* C17: for a well-formed schema ValidateToolParameters returns an error
\* when a required name is missing, and that error names the first
\* missing name in the order of `required`; it does not return nil when
\* an undeclared name is given, and when that is the only violation the
\* error is "unknown parameter" naming an undeclared name; a nil argument
\* map gets what the empty map gets.
C17_ClosedWorld ==
    (Validated("ValidateToolParameters") /\ WellFormed(val.schema)) =>
        /\ MissingRequired(val.params, val.schema) # {} =>
              val.err = << "required parameter '",
                           FirstMissing(val.params, val.schema), "' is missing" >>
        /\ Undeclared(val.params, val.schema) # {} => val.err # NoText
        /\ ( /\ MissingRequired(val.params, val.schema) = {}
             /\ Undeclared(val.params, val.schema) # {}
             /\ DeclaredValuesPass(val.params, val.schema) ) =>
              \E name \in Undeclared(val.params, val.schema) :
                  val.err = << "unknown parameter '", name, "'" >>
        /\ val.params = NilMap =>
              /\ val.err \in ValidateToolParameters(Map(EmptyMap), val.schema)
              /\ (val.schema.Required = << >>) => val.err = NoText

C17_Witness ==
    /\ Validated("ValidateToolParameters")
    /\ WellFormed(val.schema)
    /\ MissingRequired(val.params, val.schema) = {}
    /\ Undeclared(val.params, val.schema) = {"x"}
    /\ "p" \in Given(val.params)
    /\ val.err = << "unknown parameter '", "x", "'" >>

\* the value is of the kind the property declares
KindMatches(value, property) ==
    CASE OfKind(property, "string") -> value.t = "string"
      [] OfKind(property, "number") -> value.t = "float64"
      [] OfKind(property, "integer") ->
           (value.t = "float64" /\ value.n % 2 = 0) \/ value.t = "int"
      [] OfKind(property, "boolean") -> value.t = "bool"
      [] OfKind(property, "array") -> value.t = "[]interface {}"
      [] OfKind(property, "object") -> value.t = "map[string]interface {}"
      [] OTHER -> FALSE

\* the number a numeric value stands for, in halves
NumberOf(value) == IF value.t = "int" THEN ToFloat64(value.n) ELSE value.n

\* the value meets the constraints the property declares for its kind:
\* enum membership and length in characters for a string, inclusive
\* bounds for a number, item count and pairwise distinct items for an array
ConformsTo(value, property) ==
    /\ KindMatches(value, property)
    /\ OfKind(property, "string") =>
          /\ Exists(property, "enum") =>
                \E i \in 1..Len(property.m["enum"].e) : property.m["enum"].e[i] = value
          /\ Exists(property, "minLength") =>
                ToFloat64(Len(value.s)) >= property.m["minLength"].n
          /\ Exists(property, "maxLength") =>
                ToFloat64(Len(value.s)) <= property.m["maxLength"].n
    /\ (OfKind(property, "number") \/ OfKind(property, "integer")) =>
          /\ Exists(property, "minimum") => NumberOf(value) >= property.m["minimum"].n
          /\ Exists(property, "maximum") => NumberOf(value) <= property.m["maximum"].n
    /\ OfKind(property, "array") =>
          /\ Exists(property, "minItems") =>
                ToFloat64(Len(value.e)) >= property.m["minItems"].n
          /\ Exists(property, "maxItems") =>
                ToFloat64(Len(value.e)) <= property.m["maxItems"].n
          /\ (Exists(property, "uniqueItems") /\ property.m["uniqueItems"].b) =>
                \A i, j \in 1..Len(value.e) : i # j => value.e[i] # value.e[j]

\* the argument map conforms to the schema
Conforming(params, schema) ==
    /\ MissingRequired(params, schema) = {}
    /\ Undeclared(params, schema) = {}
    /\ \A p \in Given(params) : ConformsTo(params.m[p], schema.Properties.m[p])

\* C18 (as claimed): for a well-formed schema ValidateToolParameters
\* returns an error for every argument map with a value of the wrong
\* kind, a string outside its length bounds or enum, a number outside its
\* inclusive bounds, a fractional integer, or an array outside its item
\* bounds or with a duplicate under uniqueItems, and returns nil for
\* every argument map that conforms.
C18_PerKindValidation ==
    (Validated("ValidateToolParameters") /\ WellFormed(val.schema)) =>
        IF Conforming(val.params, val.schema)
        THEN val.err = NoText
        ELSE val.err # NoText /\ ~Panics(val.err)

\* ---------------------------------------------------------------------
\* Properties of tool calls with respect to the declared schema
\* ---------------------------------------------------------------------

\* C11 (as claimed): a tools/call naming a registered tool, handled on an
\* initialized handler, whose arguments do not conform to the tool's
\* declared schema (a required name missing, an undeclared name, a wrong
\* kind, a bound violated) does not reach Execute and is answered with an
\* InvalidParams error response.
C11_ValidatedBeforeExecute ==
    \A c \in Conns :
        ( /\ Answered(c)
          /\ ToolCall(cur[c].msg)
          /\ \E d \in Conns : announced[d]
          /\ ~Conforming(Arguments(cur[c].msg.params),
                         InputSchema(h.tools[cur[c].msg.params.name])) ) =>
            /\ invoked[c] = << >>
            /\ ErrorWithCode(resp[c], InvalidParams)

\* ---------------------------------------------------------------------
\* Properties of the tables the dispatcher routes from
\* ---------------------------------------------------------------------

\* every entry of the table is still there, with the same handler
EntriesKept(before, after) ==
    \A n \in DOMAIN before : n \in DOMAIN after /\ after[n] = before[n]

\* C14 (as claimed): a registration under a name that is already in the
\* dispatcher's table fails and changes nothing, so that the handler
\* registered first stays the one tools/call invokes: no step replaces
\* an entry of h.tools, h.resources or h.prompts.
C14_DuplicateRejected ==
    [][/\ EntriesKept(h.tools, h'.tools)
       /\ EntriesKept(h.resources, h'.resources)
       /\ EntriesKept(h.prompts, h'.prompts)]_vars

\* ---------------------------------------------------------------------
\* Properties of a registry
\* ---------------------------------------------------------------------

\* this step is a call of the method (a call that leaves `reg` as it was
\* is a stuttering step)
RegistryStep(op) == reg' # reg /\ reg'.last.op = op

\* the step left the registry as it was: every Get and Count as before
RegistryUnchanged ==
    /\ reg'.r = reg.r
    /\ \A n \in RegistryNames : Get(reg'.r, n) = Get(reg.r, n)
    /\ Count(reg'.r) = Count(reg.r)

\* the handler declares no name or a name the registry holds
EmptyOrPresent(handler) ==
    Defined(handler) /\ (DefinitionName(handler) = ""
                         \/ DefinitionName(handler) \in DOMAIN reg.r.tools)

\* C12: Register of a handler whose declared name is empty or already
\* present returns an error and leaves the registry unchanged (Get
\* returns the earlier handler, Count is the same); Unregister of an
\* absent name returns an error and leaves the registry unchanged.
C12_NamesUnique ==
    [][/\ (RegistryStep("Register") /\ EmptyOrPresent(reg'.last.arg)) =>
              reg'.last.err # NoText /\ RegistryUnchanged
       /\ (RegistryStep("Unregister") /\ reg'.last.arg \notin DOMAIN reg.r.tools) =>
              reg'.last.err # NoText /\ RegistryUnchanged]_vars

C12_Witness ==
    /\ reg.last.op = "Register"
    /\ reg.last.arg = "powerCalculatorTool"
    /\ Contains(reg.last.err, "' is already registered")
    /\ Get(reg.r, "calculator").handler = "calculatorTool"

RECURSIVE Latest(_, _)
\* the handler of the last Register under the name in the log that no
\* later Unregister of the name and no later Clear follows, "" if none
Latest(log, name) ==
    IF log = << >> THEN ""
    ELSE LET e == log[Len(log)]
         IN IF e.op = "Clear" \/ (e.op = "Unregister" /\ e.name = name) THEN ""
            ELSE IF e.op = "Register" /\ e.name = name THEN e.handler
            ELSE Latest(SubSeq(log, 1, Len(log) - 1), name)

\* the names registered according to the log
RegisteredNames(log) == {n \in RegistryNames : Latest(log, n) # ""}

\* C13: after any sequence of Register, Unregister and Clear, Get(n)
\* returns the handler of the most recent successful Register under n
\* when no later Unregister(n) or Clear happened and fails not-found
\* otherwise; HasTool(n) is true exactly when Get(n) succeeds; the length
\* of List() and Count() are the number of names registered.
C13_RegistryAlgebra ==
    /\ reg.last.op = "Get" =>
          IF Latest(reg.log, reg.last.arg) = ""
          THEN reg.last.handler = "" /\ Contains(reg.last.err, "' not found")
          ELSE reg.last.handler = Latest(reg.log, reg.last.arg)
               /\ reg.last.err = NoText
    /\ reg.last.op = "HasTool" =>
          (reg.last.ok <=> Get(reg.r, reg.last.arg).err = NoText)
    /\ reg.last.op \in {"List", "Count"} =>
          /\ reg.last.n = Cardinality(RegisteredNames(reg.log))
          /\ Len(List(reg.r)) = Count(reg.r)

C13_Witness ==
    /\ reg.last.op = "Get"
    /\ reg.last.arg = "calculator"
    /\ reg.last.handler = "powerCalculatorTool"
    /\ Len(reg.log) = 3
    /\ reg.log[2].op \in {"Unregister", "Clear"}

\* ---------------------------------------------------------------------
\* Properties of a registry under concurrent callers
\* ---------------------------------------------------------------------

\* g is between taking the lock and releasing it
InCriticalSection(g) == rw.callers[g].at \in {"held", "checked", "done"}

\* g has read the map and not written it since
Reading(g) ==
    \/ rw.callers[g].at = "checked"
    \/ rw.callers[g].at = "done" /\ rw.callers[g].op \notin Writers

\* both goroutines have returned
AllReturned == \A g \in Callers : rw.callers[g].at = "idle"

\* C15: a goroutine inside Register, Unregister or Clear excludes every
\* other goroutine from the registry's methods, so only readers overlap;
\* the map a goroutine has read stays as it read it until it returns or
\* writes it itself; and of two concurrent Register calls for one name
\* that the registry does not hold exactly one returns nil.
C15_ConcurrentAccess ==
    /\ \A g, k \in Callers :
          (g # k /\ InCriticalSection(g) /\ rw.callers[g].op \in Writers) =>
              ~InCriticalSection(k)
    /\ \A g \in Callers : Reading(g) => rw.tools = rw.callers[g].seen
    /\ (rw.raced /\ AllReturned) =>
          Cardinality({g \in Callers : rw.callers[g].err = NoText}) = 1

C15_Witness ==
    /\ rw.raced
    /\ AllReturned
    /\ rw.callers["g2"].err = NoText
    /\ Contains(rw.callers["g1"].err, "' is already registered")
    /\ rw.tools["calculator"] = rw.callers["g2"].arg

\* ---------------------------------------------------------------------
\* Properties of the sanitizer
\* ---------------------------------------------------------------------

IsMap(v) == v.t \in {"map[string]interface {}", "nil map"}

IsSequence(v) == v.t \in {"[]interface {}", "[]string"}

RECURSIVE SameShape(_, _)
\* the two trees have the same keys, the same nesting and the same
\* sequence lengths
SameShape(a, b) ==
    IF IsMap(a)
    THEN /\ IsMap(b)
         /\ DOMAIN a.m = DOMAIN b.m
         /\ \A key \in DOMAIN a.m : SameShape(a.m[key], b.m[key])
    ELSE IF IsSequence(a)
    THEN /\ b.t = a.t
         /\ Len(a.e) = Len(b.e)
         /\ \A i \in 1..Len(a.e) : SameShape(a.e[i], b.e[i])
    ELSE b.t = a.t

RECURSIVE StringsBounded(_)
\* every string of the tree, at any depth, is at most the ceiling long
StringsBounded(v) ==
    /\ v.t = "string" => ByteLen(v.s) <= MaxStringLength
    /\ \A key \in DOMAIN v.m : StringsBounded(v.m[key])
    /\ \A i \in 1..Len(v.e) : StringsBounded(v.e[i])

\* a string without leading or trailing whitespace, at most the ceiling long
WellFormedString(v) ==
    /\ v.t = "string"
    /\ v.s # << >> => ~IsSpace(Head(v.s)) /\ ~IsSpace(v.s[Len(v.s)])
    /\ ByteLen(v.s) <= MaxStringLength

RECURSIVE WellFormedKept(_, _)
\* every well-formed string and every other scalar of tree a is the same
\* in tree b, which has the shape of a
WellFormedKept(a, b) ==
    IF IsMap(a) THEN \A key \in DOMAIN a.m : WellFormedKept(a.m[key], b.m[key])
    ELSE IF IsSequence(a) THEN \A i \in 1..Len(a.e) : WellFormedKept(a.e[i], b.e[i])
    ELSE (a.t = "string" => WellFormedString(a)) => b = a

RECURSIVE StringsBoundedThrough(_)
\* every string of the tree that is a value of a map[string]interface{}
\* or an element of a []interface{}, at any depth of such nesting, is at
\* most the ceiling long
StringsBoundedThrough(v) ==
    /\ v.t = "string" => ByteLen(v.s) <= MaxStringLength
    /\ \A key \in DOMAIN v.m : StringsBoundedThrough(v.m[key])
    /\ v.t = "[]interface {}" => \A i \in 1..Len(v.e) : StringsBoundedThrough(v.e[i])

RECURSIVE OthersKept(_, _)
\* every value of tree a that is not a string, a map[string]interface{}
\* or a []interface{} is the same in tree b, which has the shape of a
OthersKept(a, b) ==
    IF IsMap(a) THEN \A key \in DOMAIN a.m : OthersKept(a.m[key], b.m[key])
    ELSE IF a.t = "[]interface {}" THEN \A i \in 1..Len(a.e) : OthersKept(a.e[i], b.e[i])
    ELSE a.t # "string" => b = a

Classification(m) == << IsRequest(m), IsNotification(m), IsResponse(m), HasError(m) >>

\* the error of a message as the claim compares it: code and message
CodeAndMessage(m) == IF HasError(m) THEN << m.error.code, m.error.message >> ELSE << >>

\* C20: for every Message built by NewRequest, NewNotification,
\* NewSuccessResponse or NewErrorResponse, decoding its encoding gives a
\* message with the protocol marker "2.0", the same id, the same method,
\* the same error code and message, and the same classification as
\* request, notification or response.
C20_RoundTrip ==
    rt.stage = "decoded" =>
        /\ rt.decoded.jsonrpc = "2.0"
        /\ rt.decoded.id = rt.built.id
        /\ rt.decoded.method = rt.built.method
        /\ CodeAndMessage(rt.decoded) = CodeAndMessage(rt.built)
        /\ Classification(rt.decoded) = Classification(rt.built)

\* ---------------------------------------------------------------------
\* C21: one message at a time on a connection.
\* ---------------------------------------------------------------------
\* nothing of the message read before is outstanding on c: HandleMessage
\* has returned, and what it returned, if anything, has been written
Settled(c) ==
    /\ pc[c] = "read"
    /\ resp[c] = << >> \/ sent[c] = resp[c]

\* a step of c in which a message is written to the connection after
\* HandleMessage was called
Emits(c) ==
    /\ pc[c] \in {"handle", "send"}
    /\ sent'[c] # << >>
    /\ sent'[c] # sent[c]

\* C21: within one connection the messages are handled one at a time in
\* the order of arrival: a frame is read only when the handling of the
\* frame before it, the tool execution included, and the writing of its
\* response have finished; every response written answers the frame read
\* last, so the responses leave in the order of the requests.
C21_OneAtATime ==
    [][\A c \in Conns :
         /\ ReadMessage(c, Frames) => Settled(c)
         /\ Emits(c) => /\ cur'[c] = cur[c]
                        /\ sent'[c][1].id = cur[c].msg.id]_vars

\* a tool was executed, its response written, and the loop is back at
\* reading
C21_Witness ==
    \E c \in Conns :
        /\ Settled(c)
        /\ Decoded(c)
        /\ ToolCall(cur[c].msg)
        /\ invoked[c] # << >>
        /\ sent[c] = resp[c]
        /\ resp[c] # << >>

\* ---------------------------------------------------------------------
\* C22: no error ends the session.
\* ---------------------------------------------------------------------
\* the answer of the connection loop to a frame that is not valid JSON
ParseErrorReply(r) ==
    /\ ErrorWithCode(r, ParseError)
    /\ r[1].id = NoID

\* this step leaves the loop of c
LeavesLoop(c) == pc[c] # "closed" /\ pc'[c] = "closed"

\* this step writes what HandleMessage returned on c
WritesResponse(c) == pc[c] = "send" /\ resp[c] # << >> /\ sent'[c] = resp[c]

\* C22: no error aborts the session. HandleMessage returns a nil error
\* for every message, so the loop always goes on to send what it
\* returned; after a frame that is not valid JSON the loop answers
\* ParseError with a nil id and reads on; after a non-text frame it reads
\* on; after writing any response, an error response included, it reads
\* on; the loop is left only when a read fails or a write fails.
C22_NoErrorAborts ==
    [][\A c \in Conns :
         /\ pc[c] = "handle" =>
              /\ \A outcome \in ToolOutcomes :
                    HandleMessage(h, cur[c].msg, outcome).err = NoText
              /\ pc'[c] \in {"handle", "send"}
         /\ (ReadMessage(c, Frames) /\ cur'[c] = BadJSONFrame) =>
              pc'[c] = "read" /\ ParseErrorReply(sent'[c])
         /\ (ReadMessage(c, Frames) /\ cur'[c] = BinaryFrame) =>
              pc'[c] = "read" /\ sent'[c] = << >>
         /\ WritesResponse(c) => pc'[c] = "read"
         /\ LeavesLoop(c) =>
              \/ pc[c] = "read"
              \/ pc[c] = "send" /\ resp[c] # << >> /\ sent'[c] # resp[c]]_vars

\* a failed operation was answered with an error response, the response
\* was written, and the loop reads on
C22_Witness ==
    \E c \in Conns :
        /\ Finished(c)
        /\ GatedOp(cur[c].msg)
        /\ ErrorWithCode(sent[c], InternalError)
        /\ sent[c] = resp[c]

\* ---------------------------------------------------------------------
\* C23: malformed envelopes.
\* ---------------------------------------------------------------------
\* this step is a direct call of HandleMessage returning
DirectStep == cur'[Direct].type = "call"

\* the call of this step left the handler as it was and called no
\* collaborator
NothingDone == h' = h /\ invoked'[Direct] = << >>

\* m is neither a request nor a notification: it has no method
Shapeless(m) == m # Nil /\ ~IsRequest(m) /\ ~IsNotification(m)

\* C23: a nil message is answered with an error response of code
\* InvalidRequest (-32600) and nil id; a message that is neither a request
\* nor a notification (no method, with or without id) is answered with an
\* error response of code InvalidRequest carrying the message's id;
\* neither changes the handler's state nor invokes a collaborator.
C23_MalformedEnvelope ==
    [][DirectStep =>
         LET m == cur'[Direct].msg
             r == resp'[Direct]
         IN /\ m = Nil =>
                 /\ ErrorWithCode(r, InvalidRequest)
                 /\ r[1].id = NoID
                 /\ NothingDone
            /\ Shapeless(m) =>
                 /\ m.method = ""
                 /\ ErrorWithCode(r, InvalidRequest)
                 /\ r[1].id = m.id
                 /\ NothingDone]_vars

\* a nil message was answered on a handler that is initialized and has
\* collaborators
C23_Witness ==
    /\ cur[Direct] = DirectCall(Nil)
    /\ ErrorWithCode(resp[Direct], InvalidRequest)
    /\ h.initialized
    /\ h.tools # EmptyTable

\* a message without method that carries an id was answered
C23_WitnessShapeless ==
    /\ cur[Direct].type = "call"
    /\ Shapeless(cur[Direct].msg)
    /\ cur[Direct].msg.id # NoID
    /\ ErrorWithCode(resp[Direct], InvalidRequest)

\* ---------------------------------------------------------------------
\* C24: the classification of messages.
\* ---------------------------------------------------------------------
\* the four shapes of a message: request, notification, response, and
\* none of them (no method and no id)
Shapes(m) ==
    << IsRequest(m), IsNotification(m), IsResponse(m), m.method = "" /\ m.id = NoID >>

ExactlyOne(flags) == Cardinality({i \in DOMAIN flags : flags[i]}) = 1

\* the messages of a direct call: the one given, unless nil, and the one
\* returned, if any
Classified ==
    {m \in {cur[Direct].msg} : cur[Direct].type = "call" /\ m # Nil}
    \cup {resp[Direct][i] : i \in DOMAIN resp[Direct]}

\* C24: the classification is a partition: for every Message exactly one
\* of is-request (method and id present), is-notification (method
\* present, id absent), is-response (method absent, id present) and
\* none-of-the-above (method and id absent) holds.
C24_ClassificationPartition ==
    \A m \in Classified :
        /\ ExactlyOne(Shapes(m))
        /\ IsRequest(m) <=> (m.method # "" /\ m.id # NoID)
        /\ IsNotification(m) <=> (m.method # "" /\ m.id = NoID)
        /\ IsResponse(m) <=> (m.method = "" /\ m.id # NoID)

\* a message of each shape has been through HandleMessage: here the one
\* with neither method nor id, answered as an invalid request
C24_Witness ==
    /\ cur[Direct].type = "call"
    /\ cur[Direct].msg # Nil
    /\ Shapes(cur[Direct].msg) = << FALSE, FALSE, FALSE, TRUE >>
    /\ ErrorWithCode(resp[Direct], InvalidRequest)

\* ---------------------------------------------------------------------
\* C25: what the server emits.
\* ---------------------------------------------------------------------
\* the messages written to a connection or returned by HandleMessage in
\* the current iteration
Emitted ==
    UNION {{sent[c][i] : i \in DOMAIN sent[c]} \cup {resp[c][i] : i \in DOMAIN resp[c]} :
           c \in Conns}

\* m is a response that carries exactly one of result and error
WellFormedResponse(m) ==
    /\ m.method = ""
    /\ m.id # NoID
    /\ IsResponse(m)
    /\ (m.result # Nil) # (m.error # Nil)

\* C25: every message the dispatcher or the connection loop emits is a
\* well-formed response: no method, an identifier (so IsResponse holds),
\* and exactly one of result and error; the replies to a message of no
\* shape without id and to undecodable JSON included.
C25_WellFormedResponses == \A m \in Emitted : WellFormedResponse(m)

\* the part that does hold: every emitted message lacks a method and
\* carries exactly one of result and error
C25_ResultXorError ==
    \A m \in Emitted : m.method = "" /\ (m.result # Nil) # (m.error # Nil)

\* ---------------------------------------------------------------------
\* C26: searchWithRetry is bounded.
\* ---------------------------------------------------------------------
\* searchWithRetry has just returned
SearchReturned == ws.at = "returned"

\* the bounds of searchWithRetry: no attempt and an error for an engine
\* that is unknown or disabled; otherwise between one and MaxRetries + 1
\* attempts, none after one that gave results, one wait less than
\* attempts, and the time recorded after each attempt
RetryBounded ==
    /\ (SearchReturned /\ ~Available(ws.engineName)) =>
           ws.attempts = 0 /\ ws.errors # << >>
    /\ (SearchReturned /\ Available(ws.engineName)) =>
           /\ ws.attempts >= 1
           /\ ws.attempts <= MaxRetries + 1
           /\ ws.outcomes[ws.attempts] = "some" \/ ws.attempts = MaxRetries + 1
           /\ ws.waits = ws.attempts - 1
    /\ \A i \in 1..(Len(ws.outcomes) - 1) : ws.outcomes[i] # "some"
    /\ Len(ws.outcomes) = ws.attempts
    /\ ws.at = "wait" => ws.attempts <= MaxRetries
    /\ ws.recorded = ws.attempts
    /\ ws.attempts > 0 => ws.engineName \in ws.lastRequest

\* Execute has returned for a call with engine "auto"
AutoDone == ws.at = "done" /\ EngineOf(ws.params) = "auto"

\* C26: searchWithRetry is bounded and terminates: no attempt and an
\* error for an unknown or disabled engine; otherwise at least one and at
\* most MaxRetries+1 attempts, returning at the first attempt that gives
\* no error and a non-empty result, waiting between attempts only when
\* another attempt follows, and recording the last-request time after
\* every attempt; with engine "auto" and a non-empty query Execute falls
\* back to simulated results and never returns an isError result.
C26_BoundedRetry ==
    /\ RetryBounded
    /\ (AutoDone /\ QueryOf(ws.params) # << >>) => ~ws.isError

\* C26, amended: the bounds of searchWithRetry as claimed; with engine
\* "auto" Execute returns no isError result when the query, trimmed, is
\* non-empty and within the length ceiling, and an isError result
\* without any search otherwise.
C26_BoundedRetryAccepted ==
    /\ RetryBounded
    /\ (AutoDone /\ QueryRefused(ws.params) = NoText) =>
           ~ws.isError /\ ws.results = "some"
    /\ (ws.at = "done" /\ QueryRefused(ws.params) # NoText) =>
           ws.isError /\ ws.attempts = 0

\* both engines failed on all their attempts and Execute returned the
\* simulated results
C26_Witness ==
    /\ AutoDone
    /\ ~ws.isError
    /\ ws.engine = "Simulated Results"
    /\ ws.attempts = MaxRetries + 1
    /\ ws.waits = MaxRetries
    /\ ws.searchErrors = 2 * (MaxRetries + 1)

\* ---------------------------------------------------------------------
\* C27: sanitizing twice.
\* ---------------------------------------------------------------------
\* C27: SanitizeParameters is idempotent: sanitizing what it returned
\* gives what it returned, for every argument tree, strings longer than
\* the ceiling whose cut falls on whitespace included.
C27_SanitizeIdempotent ==
    san.returned => SanitizeParameters(san.result) = san.result

\* the part that does hold: a second pass changes nothing unless the
\* first one cut a string
C27_IdempotentWithinCeiling ==
    (san.returned /\ StringsBoundedThrough(san.given)) =>
        SanitizeParameters(san.result) = san.result

\* ---------------------------------------------------------------------
\* C28: the validator returns.
\* ---------------------------------------------------------------------
\* the argument map holds, under a property of kind array with
\* uniqueItems true, an array with an element that is an array or an
\* object
UniqueOverComposite(params, schema) ==
    \E name \in DOMAIN params.m \cap DOMAIN schema.Properties.m :
        LET property == schema.Properties.m[name]
        IN /\ OfKind(property, "array")
           /\ Exists(property, "uniqueItems")
           /\ property.m["uniqueItems"] = Bool(TRUE)
           /\ params.m[name].t = "[]interface {}"
           /\ \E i \in 1..Len(params.m[name].e) : ~Hashable(params.m[name].e[i])

\* C28: ValidateToolParameters is total: for every schema and every
\* argument map it returns normally, with no error or with a validation
\* error, and never faults; arrays of objects or arrays under
\* uniqueItems = true and strings under an enum constraint included.
C28_ValidatorTotal ==
    Validated("ValidateToolParameters") => ~Panics(val.err)

\* the part that does hold: the call returns normally whenever no array
\* under uniqueItems = true holds an array or an object
C28_TotalOnScalars ==
    (Validated("ValidateToolParameters") /\ ~UniqueOverComposite(val.params, val.schema)) =>
        ~Panics(val.err)

\* ---------------------------------------------------------------------
\* C29: the schemas of the bundled tools.
\* ---------------------------------------------------------------------
\* the bundled tool whose schema is under validation
Declaring == CHOOSE handler \in BundledTools : InputSchema(handler) = val.schema

\* C29: the schemas the bundled tools declare are accepted by the
\* validator: ValidateToolSchema returns no error for the input schema
\* of the calculator tool and of the web_search tool as built in code,
\* and ValidateToolParameters accepts a conforming argument set for each.
C29_BundledSchemasAccepted ==
    /\ Validated("ValidateToolSchema") => val.err = NoText
    /\ (Validated("ValidateToolParameters") /\ val.params \in ConformingArguments(Declaring)) =>
           val.err = NoText

\* what the validator does instead: it rejects each of the three schemas,
\* and with them every argument set
C29_BundledSchemasRejected ==
    /\ Validated("ValidateToolSchema") => val.err # NoText
    /\ Validated("ValidateToolParameters") => Contains(val.err, "invalid schema: ")

\* ---------------------------------------------------------------------
\* C30: accesses of the workers of two connections to the one dispatcher.
\* ---------------------------------------------------------------------
\* the worker of c is inside HandleMessage with the message it decoded
InHandleMessage(c) == pc[c] = "handle" /\ Decoded(c)

\* the locks the worker of c holds while it is inside HandleMessage:
\* BaseHandler has no mutex field and handleConnection takes none
LocksHeld(c) == {}

\* handleNotification assigns h.initialized for this message
WritesInitialized(m) == IsNotification(m) /\ m.method = "initialized"

\* CallTool, ReadResource or GetPrompt test h.initialized for this message
ReadsInitialized(m) == GatedOp(m)

\* the workers of a and b are both inside HandleMessage, a about to write
\* the initialized flag and b about to read or write it
Conflicting(a, b) ==
    /\ a # b
    /\ InHandleMessage(a)
    /\ InHandleMessage(b)
    /\ WritesInitialized(cur[a].msg)
    /\ ReadsInitialized(cur[b].msg) \/ WritesInitialized(cur[b].msg)

\* C30: concurrent connections never make unsynchronized conflicting
\* accesses to shared dispatcher state: whenever the worker of one
\* connection writes the initialized flag while the worker of another
\* reads or writes it, the two hold a common lock.
C30_NoConflictingAccess ==
    \A a \in Conns : \A b \in Conns :
        Conflicting(a, b) => LocksHeld(a) \cap LocksHeld(b) # {}

\* what the race decides: with the notification of a and the gated
\* request of b both in HandleMessage, the request is refused when its
\* read comes first and served when the write comes first
C30_OrderDecides ==
    \A a \in Conns : \A b \in Conns :
        (Conflicting(a, b) /\ ReadsInitialized(cur[b].msg)) =>
            /\ ~h.initialized =>
                   HandleMessage(h, cur[b].msg, "result").msg[1].error # Nil
            /\ HandleMessage(HandleMessage(h, cur[a].msg, "result").h,
                             cur[b].msg, "result").msg[1].error = Nil

====
